---- MODULE Spec2Model ----
(***************************************************************************)
(* A state-machine model of the CL0 node runtime (crates/cl0_node): the    *)
(* variable store, the alias namespace tree, the event-handler registry,   *)
(* the message routes and the recursive condition/action evaluator.        *)
(*                                                                         *)
(* Every invocation of an async function of the node is a frame.  Frames   *)
(* form a tree (a frame's identifier is the path of call indices from the  *)
(* root), a frame that awaits a child is suspended until the child         *)
(* returns, and frames that belong to different tokio tasks interleave     *)
(* freely: the runtime is a multi-threaded worker pool.                    *)
(***************************************************************************)
EXTENDS Naturals, Sequences, FiniteSets, TLC

VARIABLES
    vars,            \* Node.vars: primitive condition -> ActivationStatus
    aliases,         \* Node.aliases: namespace path -> rule list
    event_handlers,  \* Node.event_handlers: identifier -> (ReactiveRuleKey -> status)
    frames,          \* the live invocations: frame id -> frame
    mailbox,         \* ApiRoute queues: route -> frame ids, in enqueue order
    failOrder        \* history: child tasks of action lists, in the order they failed

state == <<vars, aliases, event_handlers, frames, mailbox, failOrder>>

(***************************************************************************)
(* Values                                                                  *)
(***************************************************************************)
None == <<>>
Some(x) == <<x>>

True == "True"
False == "False"
Conflict == "Conflict"

Ok(v) == [ok |-> TRUE, val |-> v, err |-> <<>>]
Err(e) == [ok |-> FALSE, val |-> FALSE, err |-> e]

\* cl0_parser::ast
Primitive(v) == [k |-> "Primitive", v |-> v]
Compound(rules, alias) == [k |-> "Compound", rules |-> rules, alias |-> alias]
SubCompound(namespace, condition) ==
    [k |-> "SubCompound", namespace |-> namespace, condition |-> condition]

Atomic(ac) == [k |-> "Atomic", ac |-> ac]
Not(c) == [k |-> "Not", c |-> c]
Parentheses(c) == [k |-> "Parentheses", c |-> c]
Conjunction(cs) == [k |-> "Conjunction", cs |-> cs]
Disjunction(cs) == [k |-> "Disjunction", cs |-> cs]

Trigger(id) == [k |-> "Trigger", id |-> id]
Production(ac) == [k |-> "Production", ac |-> ac]
Consumption(ac) == [k |-> "Consumption", ac |-> ac]
Sequence(actions) == [k |-> "Sequence", actions |-> actions]
Parallel(actions) == [k |-> "Parallel", actions |-> actions]
Alternative(actions) == [k |-> "Alternative", actions |-> actions]

ECA(event, condition, action) ==
    [k |-> "ECA", event |-> event, condition |-> condition, action |-> action]
CA(condition, action) == [k |-> "CA", condition |-> condition, action |-> action]
CaseRule(action) == [k |-> "Case", action |-> action]
FactRule(condition) == [k |-> "Fact", condition |-> condition]
DeclarativeRule(premise, condition) ==
    [k |-> "Declarative", premise |-> premise, condition |-> condition]

IsReactive(rule) == rule.k \in {"ECA", "CA"}

\* cl0_node::types
ReactiveRuleWithArgs(rule, value, alias) ==
    [k |-> "Reactive", rule |-> rule, value |-> value, alias |-> alias]
FactRuleWithArgs(rule, value) == [k |-> "Fact", rule |-> rule, value |-> value]
CaseWithArgs(rule) == [k |-> "Case", rule |-> rule]
DeclarativeWithArgs(rule) == [k |-> "Declarative", rule |-> rule]

\* a key that leaves the alias path out
ReactiveRuleKeyShared(rule, alias) == [rule |-> rule, alias |-> <<>>]

ReactiveRuleKey(rule, alias) == [rule |-> rule, alias |-> alias]

(***************************************************************************)
(* Sequence helpers                                                        *)
(***************************************************************************)
Range(s) == {s[i] : i \in DOMAIN s}
Contains(s, x) == \E i \in DOMAIN s : s[i] = x
Front(s) == SubSeq(s, 1, Len(s) - 1)
Last(s) == s[Len(s)]

\* a filter that keeps everything
FilterNothing(s, keep) == s

RECURSIVE Filter(_, _)
\* s.filter(|x| keep.contains(x)), keeping the order of s
Filter(s, keep) ==
    IF s = <<>> THEN <<>>
    ELSE IF Contains(keep, Head(s)) THEN <<Head(s)>> \o Filter(Tail(s), keep)
    ELSE Filter(Tail(s), keep)

RECURSIVE SelectKind(_, _)
SelectKind(s, kinds) ==
    IF s = <<>> THEN <<>>
    ELSE IF Head(s).k \in kinds THEN <<Head(s)>> \o SelectKind(Tail(s), kinds)
    ELSE SelectKind(Tail(s), kinds)

(***************************************************************************)
(* ast.rs: identifiers                                                     *)
(***************************************************************************)
\* PrimitiveEvent::get_identifier; a production or consumption event is
\* identified by the rendering of its condition, which is the condition here
EventIdentifier(event) ==
    IF event.k = "Trigger" THEN event.id ELSE event.ac

\* ReactiveRule::get_identifier
GetIdentifier(rule) ==
    IF rule.k = "ECA" THEN EventIdentifier(rule.event) ELSE ""

(***************************************************************************)
(* types.rs: ActivationStatus                                              *)
(***************************************************************************)
\* a conversion that takes everything but True for false
ToBoolLenient(s) == Ok(s = True)

\* ActivationStatus::to_bool
ToBool(s) ==
    IF s = True THEN Ok(TRUE)
    ELSE IF s = False THEN Ok(FALSE)
    ELSE Err(<<"Not a boolean value">>)

(***************************************************************************)
(* utils.rs                                                                *)
(***************************************************************************)
\* a summary in which one True rule decides
OverallStatusAnyTrue(statuses) ==
    IF Conflict \in statuses THEN Err(<<"Overall status is unknown">>)
    ELSE IF True \in statuses THEN Ok(True)
    ELSE IF False \in statuses THEN Ok(False)
    ELSE Err(<<"No valid status found">>)

\* a summary that answers Conflict where no status decides
OverallStatusOrConflict(statuses) ==
    IF Conflict \in statuses THEN Ok(Conflict)
    ELSE IF False \in statuses THEN Ok(False)
    ELSE IF True \in statuses THEN Ok(True)
    ELSE Ok(Conflict)

\* overall_status_from_set
OverallStatusFromSet(statuses) ==
    IF Conflict \in statuses THEN Err(<<"Overall status is unknown">>)
    ELSE IF False \in statuses THEN Ok(False)
    ELSE IF True \in statuses THEN Ok(True)
    ELSE Err(<<"No valid status found">>)

RECURSIVE CollectFrom(_, _)
CollectFrom(results, overall) ==
    IF results = <<>> THEN Ok(overall)
    ELSE IF ~Head(results).ok THEN Head(results)
    ELSE CollectFrom(Tail(results), overall /\ Head(results).val)

\* a conjunction that takes a failed task for a false one
ConjunctionOfOks(results) ==
    Ok(\A j \in DOMAIN results : results[j].ok /\ results[j].val)

\* collect_conjunction: join_all has completed every handle; the results are
\* then folded in the order of the handles
CollectConjunction(results) == CollectFrom(results, TRUE)

\* get_parts
GetParts(path) == [head |-> Head(path), tail |-> Tail(path), full |-> path]

Prefixes(path) == {SubSeq(path, 1, n) : n \in 1..Len(path)}

\* AliasNamespace::get_rules, from the top-level map down
NamespaceGetRules(al, path) ==
    IF path \in DOMAIN al THEN Ok(al[path])
    ELSE Err(<<"No matching namespace for alias">>)

RECURSIVE Union(_, _)
\* the union branch of create_rules: push each new rule not yet in combined
Union(combined, new_rules) ==
    IF new_rules = <<>> THEN combined
    ELSE IF Contains(combined, Head(new_rules)) THEN Union(combined, Tail(new_rules))
    ELSE Union(Append(combined, Head(new_rules)), Tail(new_rules))

\* the leaf of AliasNamespace::create_rules
LeafRules(old, new_rules, override_entries) ==
    IF override_entries THEN new_rules ELSE Union(old, new_rules)

\* AliasNamespace::create_rules below Node.aliases[head]: intermediate
\* namespaces are created empty, the leaf is replaced or merged
CreateRules(al, path, new_rules, override_entries) ==
    LET old == IF path \in DOMAIN al THEN al[path] ELSE <<>>
        dom == DOMAIN al \cup Prefixes(path)
    IN [p \in dom |->
            IF p = path THEN LeafRules(old, new_rules, override_entries)
            ELSE IF p \in DOMAIN al THEN al[p]
            ELSE <<>>]

(***************************************************************************)
(* event_handler.rs: EventHandler::state                                   *)
(***************************************************************************)
\* a handler that counts as active whatever its rules are
AlwaysActive(rules) == True

\* the aggregated state of a handler whose rule map is `rules`
HandlerState(rules) ==
    LET statuses == {rules[key] : key \in DOMAIN rules}
    IN IF Cardinality(statuses) = 1 THEN CHOOSE s \in statuses : TRUE
       ELSE IF True \in statuses THEN True
       ELSE IF False \in statuses THEN False
       ELSE Conflict

\* the test of the loop, inverted
SkipsActive(value) == value = True

\* process_action_route: the test that makes the loop `continue`
SkipsRule(value) == value = False

\* get_rules_route of one handler
HandlerGetRules(rules, all) ==
    {ReactiveRuleWithArgs(key.rule, rules[key], key.alias) :
        key \in {q \in DOMAIN rules : all \/ rules[q] # False}}

(***************************************************************************)
(* node.rs: readers                                                        *)
(***************************************************************************)
RECURSIVE GetAliasRules(_, _, _)
\* Node::get_alias_rules: [ok, rules, ns]
GetAliasRules(al, atomic_condition, alias_namespace) ==
    LET NoAlias == [ok |-> FALSE, rules |-> <<>>, ns |-> <<>>]
    IN CASE atomic_condition.k = "Primitive" ->
            LET combined == IF alias_namespace = None THEN <<atomic_condition.v>>
                            ELSE Append(alias_namespace[1], atomic_condition.v)
                parts == GetParts(combined)
            IN IF <<parts.head>> \notin DOMAIN al THEN NoAlias
               ELSE LET r == NamespaceGetRules(al, parts.full)
                    IN IF r.ok THEN [ok |-> TRUE, rules |-> r.val, ns |-> parts.full]
                       ELSE NoAlias
         [] atomic_condition.k = "Compound" ->
            IF alias_namespace = None THEN NoAlias
            ELSE LET ns == alias_namespace[1]
                     tail_namespace == Last(ns)
                     main_namespace == Front(ns)
                     full == GetAliasRules(al, Primitive(tail_namespace),
                                 IF main_namespace = <<>> THEN None
                                 ELSE Some(main_namespace))
                 IN IF ~full.ok THEN NoAlias
                    ELSE [ok |-> TRUE,
                          rules |-> Filter(atomic_condition.rules, full.rules),
                          ns |-> full.ns]
         [] atomic_condition.k = "SubCompound" ->
            LET next_ns == IF alias_namespace = None THEN <<>> ELSE alias_namespace[1]
            IN GetAliasRules(al, atomic_condition.condition,
                             Some(Append(next_ns, atomic_condition.namespace)))

\* Node::get_rule_status; the answer of the handler's get_rules route is
\* read in one step
GetRuleStatus(eh, rule, alias) ==
    LET handler_id == GetIdentifier(rule)
    IN IF handler_id \notin DOMAIN eh THEN Err(<<"Handler for rule not found">>)
       ELSE IF ReactiveRuleKey(rule, alias) \in DOMAIN eh[handler_id]
            THEN Ok(eh[handler_id][ReactiveRuleKey(rule, alias)])
            ELSE Err(<<"Rule not found in handler">>)

RECURSIVE GetAtomicCondition(_, _, _, _, _)
\* Node::get_atomic_condition: Ok(status) or Err
GetAtomicCondition(vs, al, eh, condition, var_namespace) ==
    CASE condition.k = "Primitive" ->
            IF condition.v \in DOMAIN vs THEN Ok(vs[condition.v]) ELSE Ok(Conflict)
      [] condition.k = "Compound" ->
            LET n == (IF var_namespace = None THEN <<>> ELSE var_namespace[1])
                        \o condition.alias
                var_namespace_copy == IF Len(n) > 0 THEN Some(n) ELSE None
            IN IF n = <<>> THEN Err(<<"Cannot get rules from the main namespace">>)
               ELSE IF <<n[1]>> \notin DOMAIN al THEN Err(<<"No matching namespace found">>)
               ELSE LET prev_rules == NamespaceGetRules(al, n)
                    IN IF ~prev_rules.ok THEN prev_rules
                       ELSE LET matching == SelectKind(
                                    Filter(condition.rules, prev_rules.val), {"ECA", "CA"})
                                sts == {GetRuleStatus(eh, matching[i], var_namespace_copy) :
                                            i \in DOMAIN matching}
                            IN IF \E s \in sts : ~s.ok
                               THEN CHOOSE s \in sts : ~s.ok
                               ELSE OverallStatusFromSet({s.val : s \in sts})
      [] condition.k = "SubCompound" ->
            LET n == IF var_namespace = None THEN <<condition.namespace>>
                     ELSE <<condition.namespace>> \o var_namespace[1]
            IN GetAtomicCondition(vs, al, eh, condition.condition, Some(n))

(***************************************************************************)
(* node.rs: process_condition, as a replay over the statuses read so far   *)
(***************************************************************************)
RECURSIVE Eval(_, _)
RECURSIVE EvalList(_, _, _)
\* process_condition on `condition` where the atomic conditions met so far
\* evaluated to `reads` (each Ok(status) or Err): [st, val, ac, rest] with
\* st = "need" (the next atomic condition to read is ac), "done" or "err"
Eval(condition, reads) ==
    CASE condition.k = "Atomic" ->
            IF reads = <<>>
            THEN [st |-> "need", val |-> FALSE, ac |-> condition.ac, rest |-> <<>>]
            ELSE IF Head(reads).ok /\ ToBool(Head(reads).val).ok
                 THEN [st |-> "done", val |-> ToBool(Head(reads).val).val,
                       ac |-> condition.ac, rest |-> Tail(reads)]
                 ELSE [st |-> "err", val |-> FALSE, ac |-> condition.ac,
                       rest |-> Tail(reads)]
      [] condition.k = "Not" ->
            LET r == Eval(condition.c, reads)
            IN IF r.st = "done" THEN [r EXCEPT !.val = ~r.val] ELSE r
      [] condition.k = "Parentheses" -> Eval(condition.c, reads)
      [] condition.k = "Conjunction" -> EvalList(condition.cs, reads, TRUE)
      [] condition.k = "Disjunction" -> EvalList(condition.cs, reads, FALSE)

RECURSIVE EvalListAll(_, _, _)
\* loops that evaluate every operand before they combine the results
EvalListAll(cs, reads, isAnd) ==
    IF cs = <<>>
    THEN [st |-> "done", val |-> isAnd, ac |-> Primitive(""), rest |-> reads]
    ELSE LET r == Eval(Head(cs), reads)
         IN IF r.st # "done" THEN r
            ELSE LET more == EvalListAll(Tail(cs), r.rest, isAnd)
                 IN IF more.st # "done" THEN more
                    ELSE [more EXCEPT !.val = IF isAnd THEN r.val /\ @ ELSE r.val \/ @]

\* the loops of Conjunction (isAnd) and Disjunction: stop at the first
\* operand that is false, resp. true
EvalList(cs, reads, isAnd) ==
    IF cs = <<>>
    THEN [st |-> "done", val |-> isAnd, ac |-> Primitive(""), rest |-> reads]
    ELSE LET r == Eval(Head(cs), reads)
         IN IF r.st # "done" THEN r
            ELSE IF r.val # isAnd THEN r
            ELSE EvalList(Tail(cs), r.rest, isAnd)

(***************************************************************************)
(* visitor.rs: the atomic conditions of a rule, in visiting order          *)
(***************************************************************************)
RECURSIVE VisitRule(_)
RECURSIVE VisitRules(_)
RECURSIVE VisitAtomicCondition(_)
RECURSIVE VisitCondition(_)
RECURSIVE VisitConditions(_)
RECURSIVE VisitAction(_)
RECURSIVE VisitActions(_)

VisitAtomicCondition(ac) ==
    <<ac>> \o (CASE ac.k = "Primitive" -> <<>>
                 [] ac.k = "Compound" -> VisitRules(ac.rules)
                 [] ac.k = "SubCompound" -> VisitAtomicCondition(ac.condition))

VisitCondition(c) ==
    CASE c.k = "Atomic" -> VisitAtomicCondition(c.ac)
      [] c.k \in {"Not", "Parentheses"} -> VisitCondition(c.c)
      [] c.k \in {"Conjunction", "Disjunction"} -> VisitConditions(c.cs)

VisitConditions(cs) ==
    IF cs = <<>> THEN <<>> ELSE VisitCondition(Head(cs)) \o VisitConditions(Tail(cs))

VisitAction(a) ==
    CASE a.k = "Trigger" -> <<>>
      [] a.k \in {"Production", "Consumption"} -> VisitAtomicCondition(a.ac)
      [] a.k \in {"Sequence", "Parallel", "Alternative"} -> VisitActions(a.actions)

VisitActions(as) ==
    IF as = <<>> THEN <<>> ELSE VisitAction(Head(as)) \o VisitActions(Tail(as))

VisitOption(oc) == IF oc = None THEN <<>> ELSE VisitCondition(oc[1])

VisitRule(rule) ==
    CASE rule.k = "ECA" ->
            VisitAction(rule.event) \o VisitOption(rule.condition) \o VisitAction(rule.action)
      [] rule.k = "CA" -> VisitCondition(rule.condition) \o VisitAction(rule.action)
      [] rule.k = "Case" -> VisitAction(rule.action)
      [] rule.k = "Fact" -> VisitAtomicCondition(rule.condition)
      [] rule.k = "Declarative" ->
            VisitOption(rule.premise) \o
            (IF rule.condition.k \in {"Primitive", "Compound", "SubCompound"}
             THEN VisitAtomicCondition(rule.condition)
             ELSE VisitCondition(rule.condition))

VisitRules(rules) ==
    IF rules = <<>> THEN <<>> ELSE VisitRule(Head(rules)) \o VisitRules(Tail(rules))

(***************************************************************************)
(* Frames: one per invocation of an async function or spawned task         *)
(***************************************************************************)
EmptyMap == [z \in {} |-> z]

\* fn: the function; a: its argument; pc: where it is; st: "run", "wait"
\* (suspended on an awaited child), "queued" (a request not yet taken from
\* its route) or "done" (a finished task whose JoinHandle is not yet read);
\* n: children created; i, acc, x, seen, out: locals; b: arrivals at the
\* barrier the frame owns; ret: the value the last awaited
\* child returned; mode: "await" (the creator awaits it), "spawn"
\* (tokio::spawn, joined later) or "detach" (nobody reads the result)
NewFrame(fn, a, mode, st, pc) ==
    [fn |-> fn, a |-> a, pc |-> pc, st |-> st, n |-> 0, i |-> 1, acc |-> TRUE,
     x |-> <<>>, seen |-> {}, out |-> {}, b |-> 0, ret |-> Ok(TRUE), mode |-> mode]

At(f, fn, pc) ==
    /\ frames[f].fn = fn
    /\ frames[f].st = "run"
    /\ frames[f].pc = pc

Child(fs, f) == Append(f, fs[f].n + 1)
AddChild(fs, f, fr) == (Child(fs, f) :> fr) @@ [fs EXCEPT ![f].n = @ + 1]
Remove(fs, f) == [g \in DOMAIN fs \ {f} |-> fs[g]]

\* `child(...).await`: the caller is suspended until the child returns
Await(fs, f, fn, a) ==
    AddChild([fs EXCEPT ![f].st = "wait"], f, NewFrame(fn, a, "await", "run", "start"))

\* tokio::spawn(child): the caller goes on, the child is runnable at once
SpawnTask(fs, f, fn, a, pc) ==
    AddChild(fs, f, NewFrame(fn, a, "spawn", "run", pc))

\* ApiRoute::call: the request is queued with a reply slot and the caller
\* awaits the reply
CallFrame(fs, f, fn, a) ==
    AddChild([fs EXCEPT ![f].st = "wait"], f, NewFrame(fn, a, "await", "queued", "start"))

\* ApiRoute::notify: the request is queued without a reply slot
NotifyFrame(fs, f, fn, a) ==
    AddChild(fs, f, NewFrame(fn, a, "detach", "queued", "start"))

Enqueue(mb, route, id) == [mb EXCEPT ![route] = Append(@, id)]

NodeRoute(name) == <<"Node", name>>
HandlerRoute(id, name) == <<"EventHandler", id, name>>

RECURSIVE Top(_, _)
\* a frame whose caller only hands the result on (`child.await` in tail
\* position) returns through that caller
Top(fs, f) ==
    IF fs[f].mode = "await" /\ fs[Front(f)].pc = "ret" THEN Top(fs, Front(f)) ELSE f

\* the frame Top(fs, f) returns r to whoever waits for it
Return(fs, f, r) ==
    LET t == Top(fs, f)
        live == [g \in {h \in DOMAIN fs : ~(Len(h) > Len(t) /\ SubSeq(h, 1, Len(t)) = t)}
                    |-> fs[g]]
    IN CASE fs[t].mode = "await" ->
                [Remove(live, t) EXCEPT ![Front(t)].st = "run", ![Front(t)].ret = r]
         [] fs[t].mode = "spawn" ->
                [live EXCEPT ![t] = [NewFrame(fs[t].fn, fs[t].a, "spawn", "done", "done")
                                        EXCEPT !.ret = r]]
         [] OTHER -> Remove(live, t)

Returns(fs, f, r) ==
    /\ frames' = Return(fs, f, r)
    /\ failOrder' = IF fs[Top(fs, f)].mode = "spawn" /\ ~r.ok
                    THEN Append(failOrder, Top(fs, f))
                    ELSE failOrder

(***************************************************************************)
(* api.rs: ApiRoute                                                        *)
(***************************************************************************)
\* a dispatcher that takes the newest request of the route
DispatchNewest(route) ==
    /\ mailbox[route] # <<>>
    /\ frames' = [frames EXCEPT ![Last(mailbox[route])].st = "run"]
    /\ mailbox' = [mailbox EXCEPT ![route] = Front(@)]
    /\ UNCHANGED <<vars, aliases, event_handlers, failOrder>>

\* the dispatcher loop of ApiRoute::new: take the oldest request of the
\* route and spawn its handler
Dispatch(route) ==
    /\ mailbox[route] # <<>>
    /\ frames' = [frames EXCEPT ![Head(mailbox[route])].st = "run"]
    /\ mailbox' = [mailbox EXCEPT ![route] = Tail(@)]
    /\ UNCHANGED <<vars, aliases, event_handlers, failOrder>>

(***************************************************************************)
(* Guards into the DashMaps                                                *)
(***************************************************************************)
\* the entry of event_handlers a task keeps a Ref to while it is suspended:
\* process_action keeps `eh_entry` over the call of the handler's
\* process_action route, process_rule keeps `handler` over add_rule
RegistryGuard(f) ==
    IF frames[f].st # "wait" THEN {}
    ELSE IF frames[f].fn = "process_action" /\ frames[f].a.k = "Trigger"
    THEN {frames[f].a.id}
    ELSE IF frames[f].fn = "process_rule" /\ frames[f].a.k = "Reactive"
    THEN {GetIdentifier(frames[f].a.rule)}
    ELSE {}

\* the key of a handler's rule map that `rule_ref` keeps read-locked while
\* process_action_route is suspended on process_rule_internal
RulesGuard(f) ==
    IF frames[f].fn = "process_action_route" /\ frames[f].st = "wait"
    THEN frames[f].out
    ELSE {}

\* the entries of event_handlers some task keeps a Ref to
HeldEntries == UNION {RegistryGuard(f) : f \in DOMAIN frames}

\* the keys of the rule map of handler `id` some task keeps read-locked
HeldKeys(id) ==
    UNION {RulesGuard(f) : f \in {g \in DOMAIN frames :
                frames[g].fn = "process_action_route" /\ frames[g].a = id}}

(***************************************************************************)
(* node.rs: the new_rules route                                            *)
(***************************************************************************)
\* what the route answers when every rule was processed: `results` is
\* created with a capacity and never pushed to
NewRulesResults(rules) == <<>>

\* a closure that processes the rules last to first
NewRulesRouteReversed(f) ==
    /\ At(f, "new_rules", "start")
    /\ LET fr == frames[f]
       IN IF fr.i > 1 /\ ~fr.ret.ok
          THEN Returns(frames, f, fr.ret)
          ELSE IF fr.i <= Len(fr.a)
          THEN /\ frames' = Await([frames EXCEPT ![f].i = @ + 1], f,
                                  "process_rule", fr.a[Len(fr.a) + 1 - fr.i])
               /\ UNCHANGED failOrder
          ELSE Returns(frames, f, Ok(NewRulesResults(fr.a)))
    /\ UNCHANGED <<vars, aliases, event_handlers, mailbox>>

\* the handler closure of new_rules: process the rules in order, `?` on
\* each, then Ok(results)
NewRulesRoute(f) ==
    /\ At(f, "new_rules", "start")
    /\ LET fr == frames[f]
       IN IF fr.i > 1 /\ ~fr.ret.ok
          THEN Returns(frames, f, fr.ret)
          ELSE IF fr.i <= Len(fr.a)
          THEN /\ frames' = Await([frames EXCEPT ![f].i = @ + 1], f,
                                  "process_rule", fr.a[fr.i])
               /\ UNCHANGED failOrder
          ELSE Returns(frames, f, Ok(NewRulesResults(fr.a)))
    /\ UNCHANGED <<vars, aliases, event_handlers, mailbox>>

(***************************************************************************)
(* node.rs: process_rule                                                   *)
(***************************************************************************)
\* Reactive: look the handler up; without one go on to create it, else
\* hand the rule to the handler's new_rule route (add_rule)
ProcessRuleReactive(f) ==
    /\ At(f, "process_rule", "start")
    /\ frames[f].a.k = "Reactive"
    /\ LET handler_id == GetIdentifier(frames[f].a.rule)
       IN IF handler_id \notin DOMAIN event_handlers
          THEN /\ frames' = [frames EXCEPT ![f].pc = "insert"]
               /\ UNCHANGED mailbox
          ELSE /\ frames' = CallFrame([frames EXCEPT ![f].pc = "ret"], f,
                                      "new_rule", frames[f].a)
               /\ mailbox' = Enqueue(mailbox, HandlerRoute(handler_id, "new_rule"),
                                     Child(frames, f))
    /\ UNCHANGED <<vars, aliases, event_handlers, failOrder>>

\* EventHandler::new seeded with the rule, and event_handlers.insert
ProcessRuleInsert(f) ==
    /\ \/ At(f, "process_rule", "insert")
       \/ At(f, "process_rule", "locked") /\ HeldEntries = {}
    /\ LET rwa == frames[f].a
           handler_id == GetIdentifier(rwa.rule)
           routes == {HandlerRoute(handler_id, r) : r \in {"new_rule", "process_action"}}
       IN /\ event_handlers' =
                (handler_id :> (ReactiveRuleKey(rwa.rule, rwa.alias) :> rwa.value))
                    @@ event_handlers
          /\ mailbox' = mailbox @@ [r \in routes |-> <<>>]
    /\ Returns(frames, f, Ok(TRUE))
    /\ UNCHANGED <<vars, aliases>>

\* event_handlers.insert finds the shard of the new identifier read-locked:
\* the identifier hashes to the shard of an entry some task keeps a Ref to,
\* and the insert waits for the write lock
ProcessRuleInsertLocked(f) ==
    /\ At(f, "process_rule", "insert")
    /\ HeldEntries # {}
    /\ frames' = [frames EXCEPT ![f].pc = "locked"]
    /\ UNCHANGED <<vars, aliases, event_handlers, mailbox, failOrder>>

\* Case: process the action immediately
ProcessRuleCase(f) ==
    /\ At(f, "process_rule", "start")
    /\ frames[f].a.k = "Case"
    /\ frames' = Await([frames EXCEPT ![f].pc = "ret"], f,
                       "process_action", frames[f].a.rule.action)
    /\ UNCHANGED <<vars, aliases, event_handlers, mailbox, failOrder>>

\* the value a fact rule stores when it carries none
FactDefault(condition) == IF condition.k = "Primitive" THEN True ELSE False

\* Fact: store the condition with the value carried or the default
ProcessRuleFact(f) ==
    /\ At(f, "process_rule", "start")
    /\ frames[f].a.k = "Fact"
    /\ LET rwa == frames[f].a
           real_val == IF rwa.value = None THEN FactDefault(rwa.rule.condition)
                       ELSE rwa.value[1]
       IN frames' = Await([frames EXCEPT ![f].pc = "ret"], f, "store_atomic_condition",
                          [condition |-> rwa.rule.condition, value |-> real_val,
                           var_namespace |-> None, override_entries |-> TRUE])
    /\ UNCHANGED <<vars, aliases, event_handlers, mailbox, failOrder>>

\* a declarative rule whose conclusion is stored as a fact is
ProcessRuleDeclarativeStored(f) ==
    /\ At(f, "process_rule", "start")
    /\ frames[f].a.k = "Declarative"
    /\ frames' = Await([frames EXCEPT ![f].pc = "ret"], f, "store_atomic_condition",
                       [condition |-> frames[f].a.rule.condition, value |-> True,
                        var_namespace |-> None, override_entries |-> TRUE])
    /\ UNCHANGED <<vars, aliases, event_handlers, mailbox, failOrder>>

\* Declarative: `_ => Ok(false)`
ProcessRuleDeclarative(f) ==
    /\ At(f, "process_rule", "start")
    /\ frames[f].a.k = "Declarative"
    /\ Returns(frames, f, Ok(FALSE))
    /\ UNCHANGED <<vars, aliases, event_handlers, mailbox>>

(***************************************************************************)
(* event_handler.rs: the new_rule route                                    *)
(***************************************************************************)
\* insert (or overwrite the status of) the key
NewRuleRoute(f) ==
    /\ LET id == GetIdentifier(frames[f].a.rule)
           key == ReactiveRuleKey(frames[f].a.rule, frames[f].a.alias)
       IN \/ At(f, "new_rule", "start") /\ key \notin HeldKeys(id)
          \/ At(f, "new_rule", "locked") /\ HeldKeys(id) = {}
    /\ LET rwa == frames[f].a
           handler_id == GetIdentifier(rwa.rule)
           key == ReactiveRuleKey(rwa.rule, rwa.alias)
       IN event_handlers' =
            [event_handlers EXCEPT ![handler_id] = (key :> rwa.value) @@ @]
    /\ Returns(frames, f, Ok(TRUE))
    /\ UNCHANGED <<vars, aliases, mailbox>>

\* rules.insert finds the shard of the key read-locked: the key is the one
\* an iteration of process_action_route is at, or hashes to its shard, and
\* the insert waits for the write lock
NewRuleRouteLocked(f) ==
    /\ At(f, "new_rule", "start")
    /\ HeldKeys(GetIdentifier(frames[f].a.rule)) # {}
    /\ frames' = [frames EXCEPT ![f].pc = "locked"]
    /\ UNCHANGED <<vars, aliases, event_handlers, mailbox, failOrder>>

(***************************************************************************)
(* node.rs: update_var and store_atomic_condition                          *)
(***************************************************************************)
\* an update that checks the value and then does not store it
UpdateVarDropped(vs, var, value) ==
    IF value = Conflict
    THEN [res |-> Err(<<"Cannot update variable to Unknown">>), vars |-> vs]
    ELSE [res |-> Ok(TRUE), vars |-> vs]

\* Node::update_var: [res, vars]
UpdateVar(vs, var, value) ==
    IF value = Conflict
    THEN [res |-> Err(<<"Cannot update variable to Unknown">>), vars |-> vs]
    ELSE [res |-> Ok(TRUE), vars |-> (var :> value) @@ vs]

StorePrimitive(f) ==
    /\ At(f, "store_atomic_condition", "start")
    /\ frames[f].a.condition.k = "Primitive"
    /\ LET u == UpdateVar(vars, frames[f].a.condition.v, frames[f].a.value)
       IN /\ vars' = u.vars
          /\ Returns(frames, f, u.res)
    /\ UNCHANGED <<aliases, event_handlers, mailbox>>

\* a conversion that keeps the case rules of the compound
RulesWithArgsAll(rules, value, var_namespace_copy) ==
    [j \in DOMAIN rules |->
        IF IsReactive(rules[j])
        THEN ReactiveRuleWithArgs(rules[j], value, var_namespace_copy)
        ELSE IF rules[j].k = "Fact" THEN FactRuleWithArgs(rules[j], Some(value))
        ELSE IF rules[j].k = "Case" THEN CaseWithArgs(rules[j])
        ELSE DeclarativeWithArgs(rules[j])]

RECURSIVE RulesWithArgs(_, _, _)
\* the conversion of a compound's rules: reactive and fact rules carry the
\* value (and the namespace), case rules are left out
RulesWithArgs(rules, value, var_namespace_copy) ==
    IF rules = <<>> THEN <<>>
    ELSE LET r == Head(rules)
             rest == RulesWithArgs(Tail(rules), value, var_namespace_copy)
         IN IF IsReactive(r)
            THEN <<ReactiveRuleWithArgs(r, value, var_namespace_copy)>> \o rest
            ELSE IF r.k = "Fact" THEN <<FactRuleWithArgs(r, Some(value))>> \o rest
            ELSE rest

\* Compound: install the rules under the namespace (unless it is the main
\* one), then go on to process the converted rules; a declarative rule in
\* the compound makes the conversion panic
StoreCompound(f) ==
    /\ At(f, "store_atomic_condition", "start")
    /\ frames[f].a.condition.k = "Compound"
    /\ LET arg == frames[f].a
           n == (IF arg.var_namespace = None THEN <<>> ELSE arg.var_namespace[1])
                    \o arg.condition.alias
           var_namespace_copy == IF Len(n) > 0 THEN Some(n) ELSE None
       IN /\ aliases' = IF n = <<>> THEN aliases
                        ELSE CreateRules(aliases, n, arg.condition.rules,
                                         arg.override_entries)
          /\ IF \E j \in DOMAIN arg.condition.rules :
                    arg.condition.rules[j].k = "Declarative"
             THEN Returns(frames, f, Err(<<"panic: Unsupported rule type in compound">>))
             ELSE /\ frames' = [frames EXCEPT
                        ![f].pc = "rules",
                        ![f].x = RulesWithArgs(arg.condition.rules, arg.value,
                                               var_namespace_copy)]
                  /\ UNCHANGED failOrder
    /\ UNCHANGED <<vars, event_handlers, mailbox>>

\* the loop over rules_with_args: process_rule each, the first error ends it
StoreCompoundRules(f) ==
    /\ At(f, "store_atomic_condition", "rules")
    /\ LET fr == frames[f]
           r == IF fr.i > 1 THEN fr.acc /\ fr.ret.val ELSE TRUE
       IN IF fr.i > 1 /\ ~fr.ret.ok
          THEN Returns(frames, f, fr.ret)
          ELSE IF fr.i <= Len(fr.x)
          THEN /\ frames' = Await([frames EXCEPT ![f].i = @ + 1, ![f].acc = r], f,
                                  "process_rule", fr.x[fr.i])
               /\ UNCHANGED failOrder
          ELSE Returns(frames, f, Ok(r))
    /\ UNCHANGED <<vars, aliases, event_handlers, mailbox>>

\* the status the SubCompound branch hands to the recursive call
SubCompoundValue(value) == False

\* SubCompound: put the namespace in front of the path and recurse
StoreSubCompound(f) ==
    /\ At(f, "store_atomic_condition", "start")
    /\ frames[f].a.condition.k = "SubCompound"
    /\ LET arg == frames[f].a
           n == IF arg.var_namespace = None THEN <<arg.condition.namespace>>
                ELSE <<arg.condition.namespace>> \o arg.var_namespace[1]
       IN frames' = Await([frames EXCEPT ![f].pc = "ret"], f, "store_atomic_condition",
                          [condition |-> arg.condition.condition,
                           value |-> SubCompoundValue(arg.value),
                           var_namespace |-> Some(n),
                           override_entries |-> arg.override_entries])
    /\ UNCHANGED <<vars, aliases, event_handlers, mailbox, failOrder>>

(***************************************************************************)
(* node.rs: process_action                                                 *)
(***************************************************************************)
\* Trigger: no handler is an error; a handler whose aggregated state is
\* True is asked to process the event, any other state is a silent success
ProcessActionTrigger(f) ==
    /\ At(f, "process_action", "start")
    /\ frames[f].a.k = "Trigger"
    /\ LET desc == frames[f].a.id
       IN IF desc \notin DOMAIN event_handlers
          THEN /\ Returns(frames, f, Err(<<"Invalid action", desc>>))
               /\ UNCHANGED mailbox
          ELSE IF HandlerState(event_handlers[desc]) = True
          THEN /\ frames' = [CallFrame([frames EXCEPT ![f].pc = "ret"], f,
                                       "process_action_route", desc)
                                EXCEPT ![Child(frames, f)].x = {}]
               /\ mailbox' = Enqueue(mailbox, HandlerRoute(desc, "process_action"),
                                     Child(frames, f))
               /\ UNCHANGED failOrder
          ELSE /\ Returns(frames, f, Ok(TRUE))
               /\ UNCHANGED mailbox
    /\ UNCHANGED <<vars, aliases, event_handlers>>

\* a body that goes on to the case rules of the bundle without storing it
StoreEventUnstored(f, value, override_entries) ==
    LET ac == frames[f].a.ac
        alias_rules == GetAliasRules(aliases, ac, None)
    IN IF ~alias_rules.ok
       THEN Await([frames EXCEPT ![f].pc = "ret"], f, "store_atomic_condition",
                  [condition |-> ac, value |-> value, var_namespace |-> None,
                   override_entries |-> TRUE])
       ELSE [frames EXCEPT ![f].pc = "cases", ![f].ret = Ok(TRUE),
                           ![f].x = SelectKind(alias_rules.rules, {"Case"})]

\* the common body of Production and Consumption: without an alias the
\* condition is stored as it is; with one the bundle is stored under its
\* namespace and its case rules are kept to be fired afterwards
StoreEvent(f, value, override_entries) ==
    LET ac == frames[f].a.ac
        alias_rules == GetAliasRules(aliases, ac, None)
    IN IF ~alias_rules.ok
       THEN Await([frames EXCEPT ![f].pc = "ret"], f, "store_atomic_condition",
                  [condition |-> ac, value |-> value, var_namespace |-> None,
                   override_entries |-> TRUE])
       ELSE Await([frames EXCEPT ![f].pc = "cases",
                                 ![f].x = SelectKind(alias_rules.rules, {"Case"})],
                  f, "store_atomic_condition",
                  [condition |-> Compound(alias_rules.rules, None), value |-> value,
                   var_namespace |-> Some(alias_rules.ns),
                   override_entries |-> override_entries])

ProcessActionProduction(f) ==
    /\ At(f, "process_action", "start")
    /\ frames[f].a.k = "Production"
    /\ frames' = StoreEvent(f, True, TRUE)
    /\ UNCHANGED <<vars, aliases, event_handlers, mailbox, failOrder>>

\* a consumption that stores the bundle as a production does
ProcessActionConsumptionTrue(f) ==
    /\ At(f, "process_action", "start")
    /\ frames[f].a.k = "Consumption"
    /\ frames' = StoreEvent(f, True, FALSE)
    /\ UNCHANGED <<vars, aliases, event_handlers, mailbox, failOrder>>

ProcessActionConsumption(f) ==
    /\ At(f, "process_action", "start")
    /\ frames[f].a.k = "Consumption"
    /\ frames' = StoreEvent(f, False, FALSE)
    /\ UNCHANGED <<vars, aliases, event_handlers, mailbox, failOrder>>

\* after the bundle is stored: process its case rules in list order
ProcessActionCaseRules(f) ==
    /\ At(f, "process_action", "cases")
    /\ LET fr == frames[f]
       IN IF ~fr.ret.ok
          THEN Returns(frames, f, fr.ret)
          ELSE IF fr.i <= Len(fr.x)
          THEN /\ frames' = Await([frames EXCEPT ![f].i = @ + 1,
                                                 ![f].acc = @ /\ fr.ret.val],
                                  f, "process_rule", CaseWithArgs(fr.x[fr.i]))
               /\ UNCHANGED failOrder
          ELSE Returns(frames, f, Ok(fr.acc /\ fr.ret.val))
    /\ UNCHANGED <<vars, aliases, event_handlers, mailbox>>

\* Sequence: spawn one task per sub-action, in order, without waiting
SequenceSpawn(f) ==
    /\ frames[f].fn = "process_action"
    /\ frames[f].st = "run"
    /\ frames[f].pc \in {"start", "spawn"}
    /\ frames[f].a.k = "Sequence"
    /\ LET fr == frames[f]
           last == fr.i >= Len(fr.a.actions)
           fs == [frames EXCEPT ![f].i = @ + 1,
                                ![f].pc = IF last THEN "join" ELSE "spawn"]
       IN frames' = IF fr.i <= Len(fr.a.actions)
                    THEN SpawnTask(fs, f, "process_action", fr.a.actions[fr.i], "start")
                    ELSE fs
    /\ UNCHANGED <<vars, aliases, event_handlers, mailbox, failOrder>>

\* a barrier that does not count the task that spawns the children
ChildrenOnly(actions) == Len(actions)

\* Barrier::new(actions.len() + 1)
BarrierParties(actions) == Len(actions) + 1

\* Parallel: spawn one task per sub-action; each waits at the barrier first
ParallelSpawn(f) ==
    /\ frames[f].fn = "process_action"
    /\ frames[f].st = "run"
    /\ frames[f].pc \in {"start", "spawn"}
    /\ frames[f].a.k = "Parallel"
    /\ LET fr == frames[f]
           last == fr.i >= Len(fr.a.actions)
           fs == [frames EXCEPT ![f].i = @ + 1,
                                ![f].pc = IF last THEN "pbarrier" ELSE "spawn"]
       IN frames' = IF fr.i <= Len(fr.a.actions)
                    THEN SpawnTask(fs, f, "process_action", fr.a.actions[fr.i], "barrier")
                    ELSE fs
    /\ UNCHANGED <<vars, aliases, event_handlers, mailbox, failOrder>>

\* a child task arrives at the barrier of the Parallel that spawned it
BarrierWait(f) ==
    /\ At(f, "process_action", "barrier")
    /\ frames' = [frames EXCEPT ![f].pc = "blocked", ![Front(f)].b = @ + 1]
    /\ UNCHANGED <<vars, aliases, event_handlers, mailbox, failOrder>>

\* the Parallel itself arrives, after it spawned every child
BarrierWaitParent(f) ==
    /\ At(f, "process_action", "pbarrier")
    /\ frames' = [frames EXCEPT ![f].pc = "pblocked", ![f].b = @ + 1]
    /\ UNCHANGED <<vars, aliases, event_handlers, mailbox, failOrder>>

\* the barrier lets a waiting child go once all parties arrived
BarrierRelease(f) ==
    /\ At(f, "process_action", "blocked")
    /\ frames[Front(f)].b >= BarrierParties(frames[Front(f)].a.actions)
    /\ frames' = [frames EXCEPT ![f].pc = "start"]
    /\ UNCHANGED <<vars, aliases, event_handlers, mailbox, failOrder>>

BarrierReleaseParent(f) ==
    /\ At(f, "process_action", "pblocked")
    /\ frames[f].b >= BarrierParties(frames[f].a.actions)
    /\ frames' = [frames EXCEPT ![f].pc = "join"]
    /\ UNCHANGED <<vars, aliases, event_handlers, mailbox, failOrder>>

\* the results of the spawned children, in the order of the handles
Handles(fs, f) == [j \in 1..Len(fs[f].a.actions) |-> fs[Append(f, j)].ret]

\* a join that returns as soon as one child task has failed
JoinAllEager(f) ==
    /\ At(f, "process_action", "join")
    /\ \/ \A j \in 1..Len(frames[f].a.actions) : frames[Append(f, j)].st = "done"
       \/ \E j \in 1..Len(frames[f].a.actions) :
            frames[Append(f, j)].st = "done" /\ ~frames[Append(f, j)].ret.ok
    /\ Returns(frames, f, CollectConjunction(Handles(frames, f)))
    /\ UNCHANGED <<vars, aliases, event_handlers, mailbox>>

\* collect_conjunction(handles): once every child task has finished
JoinAll(f) ==
    /\ At(f, "process_action", "join")
    /\ \A j \in 1..Len(frames[f].a.actions) : frames[Append(f, j)].st = "done"
    /\ Returns(frames, f, CollectConjunction(Handles(frames, f)))
    /\ UNCHANGED <<vars, aliases, event_handlers, mailbox>>

\* an Alternative without the test for the empty list
AlternativeUnchecked(f) ==
    /\ At(f, "process_action", "start")
    /\ frames[f].a.k = "Alternative"
    /\ LET actions == frames[f].a.actions
       IN IF actions = <<>>
          THEN Returns(frames, f, Ok(TRUE))
          ELSE /\ \E j \in DOMAIN actions :
                    frames' = Await([frames EXCEPT ![f].pc = "ret"], f,
                                    "process_action", actions[j])
               /\ UNCHANGED failOrder
    /\ UNCHANGED <<vars, aliases, event_handlers, mailbox>>

\* Alternative: an empty list is an error, else one sub-action, picked at
\* random, is processed
ProcessActionAlternative(f) ==
    /\ At(f, "process_action", "start")
    /\ frames[f].a.k = "Alternative"
    /\ LET actions == frames[f].a.actions
       IN IF actions = <<>>
          THEN Returns(frames, f, Err(<<"Cannot execute empty alternative action">>))
          ELSE /\ \E j \in DOMAIN actions :
                    frames' = Await([frames EXCEPT ![f].pc = "ret"], f,
                                    "process_action", actions[j])
               /\ UNCHANGED failOrder
    /\ UNCHANGED <<vars, aliases, event_handlers, mailbox>>

(***************************************************************************)
(* event_handler.rs: the process_action route and process_rule_internal    *)
(***************************************************************************)
\* the keys the iteration has to visit: those in the map when it began
MustVisit(f) ==
    IF frames[f].pc = "start" THEN DOMAIN event_handlers[frames[f].a] ELSE frames[f].x

\* `valid`, with the result of the rule that was just processed
Valid(f) ==
    IF frames[f].pc = "got" THEN frames[f].acc /\ frames[f].ret.val ELSE frames[f].acc

\* one turn of `for rule_ref in rules.iter()`: a rule that SkipsRule is
\* passed over, any other is handed to process_rule_internal
ProcessActionRouteVisit(f) ==
    /\ frames[f].fn = "process_action_route"
    /\ frames[f].st = "run"
    /\ \E key \in DOMAIN event_handlers[frames[f].a] \ frames[f].seen :
        LET fs == [frames EXCEPT ![f].x = MustVisit(f),
                                 ![f].acc = Valid(f),
                                 ![f].seen = @ \cup {key},
                                 ![f].out = {key}]
        IN frames' = IF SkipsRule(event_handlers[frames[f].a][key])
                     THEN [fs EXCEPT ![f].pc = "iter"]
                     ELSE Await([fs EXCEPT ![f].pc = "got"], f,
                                "process_rule_internal", key.rule)
    /\ UNCHANGED <<vars, aliases, event_handlers, mailbox, failOrder>>

\* the iteration is over: Ok(valid)
ProcessActionRouteDone(f) ==
    /\ frames[f].fn = "process_action_route"
    /\ frames[f].st = "run"
    /\ MustVisit(f) \subseteq frames[f].seen
    /\ Returns(frames, f, Ok(Valid(f)))
    /\ UNCHANGED <<vars, aliases, event_handlers, mailbox>>

\* the condition of a reactive rule (a CA rule always has one)
RuleCondition(rule) == IF rule.k = "CA" THEN Some(rule.condition) ELSE rule.condition

EvalOption(oc, reads) ==
    IF oc = None THEN [st |-> "done", val |-> TRUE, ac |-> Primitive(""), rest |-> reads]
    ELSE Eval(oc[1], reads)

\* process_rule_internal up to the call of new_rules: the condition is
\* evaluated one atomic condition at a time; an error gives false, a false
\* condition gives true, a true one fires the action as a new case rule
ProcessRuleInternal(f) ==
    /\ At(f, "process_rule_internal", "start")
    /\ LET rule == frames[f].a
           e == EvalOption(RuleCondition(rule), frames[f].x)
           reads == IF e.st = "need"
                    THEN Append(frames[f].x,
                                GetAtomicCondition(vars, aliases, event_handlers, e.ac, None))
                    ELSE frames[f].x
           condition_result == EvalOption(RuleCondition(rule), reads)
       IN CASE condition_result.st = "need" ->
                /\ frames' = [frames EXCEPT ![f].x = reads]
                /\ UNCHANGED <<mailbox, failOrder>>
            [] condition_result.st = "err" ->
                /\ Returns(frames, f, Ok(FALSE))
                /\ UNCHANGED mailbox
            [] condition_result.st = "done" /\ ~condition_result.val ->
                /\ Returns(frames, f, Ok(TRUE))
                /\ UNCHANGED mailbox
            [] OTHER ->
                /\ frames' = CallFrame([frames EXCEPT ![f].pc = "fired"], f, "new_rules",
                                       <<CaseWithArgs(CaseRule(rule.action))>>)
                /\ mailbox' = Enqueue(mailbox, NodeRoute("new_rules"), Child(frames, f))
                /\ UNCHANGED failOrder
    /\ UNCHANGED <<vars, aliases, event_handlers>>

\* what process_rule_internal makes of the answer of new_rules:
\* r.get(0).cloned().unwrap_or(false), and false for an error
FiredResult(ret) == IF ret.ok /\ Len(ret.val) >= 1 THEN ret.val[1] ELSE FALSE

ProcessRuleInternalFired(f) ==
    /\ At(f, "process_rule_internal", "fired")
    /\ Returns(frames, f, Ok(FiredResult(frames[f].ret)))
    /\ UNCHANGED <<vars, aliases, event_handlers, mailbox>>

(***************************************************************************)
(* node.rs: the get_rules route                                            *)
(***************************************************************************)
\* one turn of `for handler_ref in handlers.iter()`: the rules of one
\* handler, as its get_rules route gives them, are appended
GetRulesRouteVisit(f) ==
    /\ At(f, "get_rules", "start")
    /\ \E id \in DOMAIN event_handlers \ frames[f].seen :
        frames' = [frames EXCEPT
            ![f].seen = @ \cup {id},
            ![f].out = @ \cup HandlerGetRules(event_handlers[id], frames[f].a)]
    /\ UNCHANGED <<vars, aliases, event_handlers, mailbox, failOrder>>

GetRulesRouteDone(f) ==
    /\ At(f, "get_rules", "start")
    /\ DOMAIN event_handlers \subseteq frames[f].seen
    /\ Returns(frames, f, Ok(frames[f].out))
    /\ UNCHANGED <<vars, aliases, event_handlers, mailbox>>

(***************************************************************************)
(* node.rs: Node::new_with_rules                                           *)
(***************************************************************************)
RECURSIVE OtherRules(_)
\* the non-case rules of the initial list, with their default arguments
OtherRules(rules) ==
    IF rules = <<>> THEN <<>>
    ELSE LET r == Head(rules)
         IN (CASE IsReactive(r) -> <<ReactiveRuleWithArgs(r, True, None)>>
               [] r.k = "Fact" -> <<FactRuleWithArgs(r, None)>>
               [] r.k = "Declarative" -> <<DeclarativeWithArgs(r)>>
               [] OTHER -> <<>>) \o OtherRules(Tail(rules))

RECURSIVE CaseRules(_)
\* the case rules of the initial list
CaseRules(rules) ==
    IF rules = <<>> THEN <<>>
    ELSE (IF Head(rules).k = "Case" THEN <<CaseWithArgs(Head(rules))>> ELSE <<>>)
            \o CaseRules(Tail(rules))

\* a constructor that sends the case rules first
CaseRulesFirst(rules) == CaseRules(rules)

\* the first request of the constructor
FirstRequest(rules) == OtherRules(rules)

\* a constructor that sends the non-case rules without storing anything first
NewWithRulesUnstored(f) ==
    /\ At(f, "new_with_rules", "start")
    /\ IF frames[f].a = None
       THEN /\ Returns(frames, f, Ok(TRUE))
            /\ UNCHANGED mailbox
       ELSE /\ frames' = CallFrame([frames EXCEPT ![f].pc = "other"], f,
                                   "new_rules", FirstRequest(frames[f].a[1]))
            /\ mailbox' = Enqueue(mailbox, NodeRoute("new_rules"), Child(frames, f))
            /\ UNCHANGED failOrder
    /\ UNCHANGED <<vars, aliases, event_handlers>>

\* every atomic condition of the initial rules is stored as False (the
\* result is dropped); then the non-case rules are sent to new_rules
NewWithRulesStore(f) ==
    /\ At(f, "new_with_rules", "start")
    /\ LET fr == frames[f]
       IN IF fr.a = None
          THEN /\ Returns(frames, f, Ok(TRUE))
               /\ UNCHANGED mailbox
          ELSE LET atomic_conditions == VisitRules(fr.a[1])
               IN IF fr.i <= Len(atomic_conditions)
                  THEN /\ frames' = Await([frames EXCEPT ![f].i = @ + 1], f,
                                "store_atomic_condition",
                                [condition |-> atomic_conditions[fr.i], value |-> False,
                                 var_namespace |-> None, override_entries |-> TRUE])
                       /\ UNCHANGED <<mailbox, failOrder>>
                  ELSE /\ frames' = CallFrame([frames EXCEPT ![f].pc = "other"], f,
                                "new_rules", FirstRequest(fr.a[1]))
                       /\ mailbox' = Enqueue(mailbox, NodeRoute("new_rules"),
                                             Child(frames, f))
                       /\ UNCHANGED failOrder
    /\ UNCHANGED <<vars, aliases, event_handlers>>

\* when the first request succeeded the case rules are sent; the node is
\* returned in either case
NewWithRulesCases(f) ==
    /\ At(f, "new_with_rules", "other")
    /\ IF ~frames[f].ret.ok
       THEN /\ Returns(frames, f, Ok(TRUE))
            /\ UNCHANGED mailbox
       ELSE /\ frames' = CallFrame([frames EXCEPT ![f].pc = "cases"], f,
                                   "new_rules", CaseRules(frames[f].a[1]))
            /\ mailbox' = Enqueue(mailbox, NodeRoute("new_rules"), Child(frames, f))
            /\ UNCHANGED failOrder
    /\ UNCHANGED <<vars, aliases, event_handlers>>

NewWithRulesDone(f) ==
    /\ At(f, "new_with_rules", "cases")
    /\ Returns(frames, f, Ok(TRUE))
    /\ UNCHANGED <<vars, aliases, event_handlers, mailbox>>

(***************************************************************************)
(* The caller of the node: a test body or the interpreter loop.  It runs   *)
(* a script of requests, one after the other, and keeps the answers.       *)
(***************************************************************************)
Request(op, arg) == [op |-> op, arg |-> arg]

ClientAt(f, op) ==
    /\ At(f, "client", "start")
    /\ frames[f].i <= Len(frames[f].a)
    /\ frames[f].a[frames[f].i].op = op

\* Node::new_with_rules(rules).await
ClientNewWithRules(f) ==
    /\ ClientAt(f, "new_with_rules")
    /\ frames' = Await([frames EXCEPT ![f].pc = "got"], f, "new_with_rules",
                       frames[f].a[frames[f].i].arg)
    /\ UNCHANGED <<vars, aliases, event_handlers, mailbox, failOrder>>

\* node.api.new_rules.call(rules).await
ClientNewRulesCall(f) ==
    /\ ClientAt(f, "new_rules.call")
    /\ frames' = CallFrame([frames EXCEPT ![f].pc = "got"], f, "new_rules",
                           frames[f].a[frames[f].i].arg)
    /\ mailbox' = Enqueue(mailbox, NodeRoute("new_rules"), Child(frames, f))
    /\ UNCHANGED <<vars, aliases, event_handlers, failOrder>>

\* node.api.new_rules.notify(rules): the caller goes on at once
ClientNewRulesNotify(f) ==
    /\ ClientAt(f, "new_rules.notify")
    /\ frames' = NotifyFrame([frames EXCEPT ![f].i = @ + 1,
                                            ![f].x = Append(@, Ok(TRUE))], f,
                             "new_rules", frames[f].a[frames[f].i].arg)
    /\ mailbox' = Enqueue(mailbox, NodeRoute("new_rules"), Child(frames, f))
    /\ UNCHANGED <<vars, aliases, event_handlers, failOrder>>

\* node.api.get_rules.call(all).await
ClientGetRulesCall(f) ==
    /\ ClientAt(f, "get_rules.call")
    /\ frames' = CallFrame([frames EXCEPT ![f].pc = "got"], f, "get_rules",
                           frames[f].a[frames[f].i].arg)
    /\ mailbox' = Enqueue(mailbox, NodeRoute("get_rules"), Child(frames, f))
    /\ UNCHANGED <<vars, aliases, event_handlers, failOrder>>

\* the awaited answer arrived: keep it and go to the next request
ClientGot(f) ==
    /\ At(f, "client", "got")
    /\ frames' = [frames EXCEPT ![f].pc = "start", ![f].i = @ + 1,
                                ![f].x = Append(@, frames[f].ret)]
    /\ UNCHANGED <<vars, aliases, event_handlers, mailbox, failOrder>>

(***************************************************************************)
(* node.rs: process_condition and get_atomic_condition, called on the node *)
(***************************************************************************)
\* the error process_condition makes of the read that stopped it
ConditionError(ac, read) ==
    IF read.ok THEN Err(<<"Failed to evaluate condition", ac, ToBool(read.val).err>>)
    ELSE Err(<<"Failed to get atomic condition", ac, read.err>>)

\* Node::process_condition, one atomic condition per step
ProcessCondition(f) ==
    /\ At(f, "process_condition", "start")
    /\ LET e == Eval(frames[f].a, frames[f].x)
           read == GetAtomicCondition(vars, aliases, event_handlers, e.ac, None)
           reads == IF e.st = "need" THEN Append(frames[f].x, read) ELSE frames[f].x
           result == Eval(frames[f].a, reads)
       IN CASE result.st = "need" ->
                /\ frames' = [frames EXCEPT ![f].x = reads]
                /\ UNCHANGED failOrder
            [] result.st = "err" -> Returns(frames, f, ConditionError(result.ac, Last(reads)))
            [] OTHER -> Returns(frames, f, Ok(result.val))
    /\ UNCHANGED <<vars, aliases, event_handlers, mailbox>>

\* node.process_condition(&condition).await
ClientProcessCondition(f) ==
    /\ ClientAt(f, "process_condition")
    /\ frames' = Await([frames EXCEPT ![f].pc = "got"], f, "process_condition",
                       frames[f].a[frames[f].i].arg)
    /\ UNCHANGED <<vars, aliases, event_handlers, mailbox, failOrder>>

\* node.get_atomic_condition(condition, None).await
ClientGetAtomicCondition(f) ==
    /\ ClientAt(f, "get_atomic_condition")
    /\ frames' = [frames EXCEPT
            ![f].i = @ + 1,
            ![f].x = Append(@, GetAtomicCondition(vars, aliases, event_handlers,
                                                  frames[f].a[frames[f].i].arg, None))]
    /\ UNCHANGED <<vars, aliases, event_handlers, mailbox, failOrder>>

(***************************************************************************)
(* The programs and requests the node is run on                            *)
(***************************************************************************)
\* the number of sub-actions of the generated action lists
NumChildren == 3

VarNames == <<"a1", "a2", "a3", "a4", "a5">>
EventNames == <<"e1", "e2", "e3", "e4", "e5">>
MissingNames == <<"x1", "x2", "x3", "x4", "x5">>

Var(v) == Atomic(Primitive(v))

\* #ej => +aj.
Plain(j) == ECA(Trigger(EventNames[j]), None, Production(Primitive(VarNames[j])))

\* #e1: not (a2 or a3) => +a1.  and its two siblings
Guarded(j, p, q) ==
    ECA(Trigger(EventNames[j]),
        Some(Not(Parentheses(Disjunction(<<Var(VarNames[p]), Var(VarNames[q])>>)))),
        Production(Primitive(VarNames[j])))

\* => +{rule}.
Produce(rule) == CaseRule(Production(Compound(<<rule>>, <<>>)))

Productions == [j \in 1..NumChildren |-> Production(Primitive(VarNames[j]))]
Triggers == [j \in 1..3 |-> Trigger(EventNames[j])]
MissingTriggers == [j \in 1..NumChildren |-> Trigger(MissingNames[j])]

Active(rule) == ReactiveRuleWithArgs(rule, True, None)

\* => #e.  #e => +loaded.
LoadedProgram ==
    <<CaseRule(Trigger("e")),
      ECA(Trigger("e"), None, Production(Primitive("loaded")))>>

\* => +{#e => +action.} as r.  => -r.  => #e.
ConsumedAliasProgram ==
    <<CaseRule(Production(Compound(
            <<ECA(Trigger("e"), None, Production(Primitive("action")))>>, <<"r">>))),
      CaseRule(Consumption(Primitive("r"))),
      CaseRule(Trigger("e"))>>

\* the three mutually exclusive guarded rules
ExclusiveProgram ==
    <<Produce(Guarded(1, 2, 3)), Produce(Guarded(2, 1, 3)), Produce(Guarded(3, 1, 2))>>

\* => +{#e1=>+a1.} alt +{#e2=>+a2.} alt +{#e3=>+a3.}.
AlternativeProgram ==
    <<CaseRule(Alternative([j \in 1..3 |->
            Production(Compound(<<Plain(j)>>, <<>>))]))>>

\* rules of one event with the three statuses
StatusRules ==
    <<ReactiveRuleWithArgs(ECA(Trigger("e"), None, Production(Primitive("a"))), True, None),
      ReactiveRuleWithArgs(ECA(Trigger("e"), None, Production(Primitive("b"))), Conflict, None),
      ReactiveRuleWithArgs(ECA(Trigger("e"), None, Production(Primitive("c"))), False, None)>>

\* f.  p -> d.  => +n.{#e1 => +a1.} as r.
MixedProgram ==
    <<FactRule(Primitive("f")),
      DeclarativeRule(Some(Var("p")), Primitive("d")),
      CaseRule(Production(SubCompound("n", Compound(<<Plain(1)>>, <<"r">>))))>>

Fire(action) == Request("new_rules.call", <<CaseWithArgs(CaseRule(action))>>)

LoadedScript == <<Request("new_with_rules", Some(LoadedProgram))>>

StatusScript ==
    <<Request("new_with_rules", None),
      Request("new_rules.call", StatusRules),
      Fire(Trigger("e"))>>

ConsumedAliasScript == <<Request("new_with_rules", Some(ConsumedAliasProgram))>>

ExclusiveScript ==
    <<Request("new_with_rules", Some(ExclusiveProgram)), Fire(Parallel(Triggers))>>

SequenceScript == <<Request("new_with_rules", None), Fire(Sequence(Productions))>>

ParallelScript == <<Request("new_with_rules", None), Fire(Parallel(Productions))>>

FailingSequenceScript ==
    <<Request("new_with_rules", None), Fire(Sequence(MissingTriggers))>>

FailingParallelScript ==
    <<Request("new_with_rules", None), Fire(Parallel(MissingTriggers))>>

TriggerInSequenceScript ==
    <<Request("new_with_rules", Some(<<Plain(1)>>)),
      Fire(Sequence(<<Trigger(EventNames[1]), Production(Primitive("b"))>>))>>

AlternativeScript ==
    <<Request("new_with_rules", Some(AlternativeProgram)),
      Request("get_rules.call", FALSE),
      Fire(Alternative(<<>>))>>

NotifyScript ==
    <<Request("new_with_rules", None),
      Request("new_rules.notify", <<Active(Plain(1))>>),
      Request("get_rules.call", FALSE)>>

NotifyMoreScript ==
    <<Request("new_with_rules", Some(<<Plain(1)>>)),
      Request("new_rules.notify", <<Active(Plain(2))>>),
      Request("get_rules.call", FALSE)>>

MixedScript ==
    <<Request("new_with_rules", Some(MixedProgram)),
      Request("get_rules.call", TRUE)>>

\* #e1 => +a1. notified, then #e1 => +a2. added while the first may be in progress
SameEvent == ECA(Trigger(EventNames[1]), None, Production(Primitive(VarNames[2])))

OverlapScript ==
    <<Request("new_with_rules", None),
      Request("new_rules.notify", <<Active(Plain(1))>>),
      Request("new_rules.call", <<Active(SameEvent)>>),
      Request("get_rules.call", TRUE)>>

\* rule_added_same_name, with the second rule added by call
SameNameScript ==
    <<Request("new_with_rules", Some(<<Plain(1)>>)),
      Request("new_rules.call", <<Active(SameEvent)>>),
      Request("get_rules.call", FALSE)>>

\* #e1 => #x1.  (no handler for #x1)
FailingAction == ECA(Trigger(EventNames[1]), None, Trigger(MissingNames[1]))

\* #e2: u => +a2.  (u is never stored)
UnreadableGuard ==
    ECA(Trigger(EventNames[2]), Some(Var("u")), Production(Primitive(VarNames[2])))

FailingActionScript ==
    <<Request("new_with_rules", None),
      Request("new_rules.call", <<Active(FailingAction)>>),
      Fire(Trigger(EventNames[1]))>>

UnreadableGuardScript ==
    <<Request("new_with_rules", None),
      Request("new_rules.call", <<Active(UnreadableGuard)>>),
      Fire(Trigger(EventNames[2]))>>

\* f.  #e1: p and not q => +a1.  {g. #e2 => +a2.} as al.  d1 -> d2.
FactsProgram ==
    <<FactRule(Primitive("f")),
      ECA(Trigger(EventNames[1]),
          Some(Conjunction(<<Var("p"), Not(Var("q"))>>)),
          Production(Primitive(VarNames[1]))),
      FactRule(Compound(<<FactRule(Primitive("g")), Plain(2)>>, <<"al">>)),
      DeclarativeRule(Some(Var("d1")), Primitive("d2"))>>

\* the atomic conditions read after construction
Probes ==
    <<Primitive("f"), Primitive("loaded"),
      Compound(<<Plain(2)>>, <<"al">>),
      Compound(<<Plain(2)>>, <<>>),
      Compound(<<Plain(1)>>, <<"al">>),
      Compound(<<Plain(2)>>, <<"none">>),
      SubCompound("al", Primitive("g")),
      SubCompound("n", Compound(<<Plain(2)>>, <<"al">>))>>

FactsScript ==
    <<Request("new_with_rules", Some(FactsProgram))>> \o
    [j \in DOMAIN Probes |-> Request("get_atomic_condition", Probes[j])]

\* process_action_check2 and process_condition_check_error1
UnsetScript ==
    <<Request("new_with_rules", Some(<<Plain(1)>>)),
      Request("process_condition", Var(VarNames[1])),
      Request("get_atomic_condition", Primitive("loaded")),
      Request("process_condition", Disjunction(<<Var(VarNames[1]), Var("loaded")>>)),
      Request("process_condition", Conjunction(<<Var(VarNames[1]), Var("loaded")>>))>>

\* {#e2 => +a2. #e3 => +a3.} as al.
BundleFact ==
    FactRule(Compound(<<Plain(2), Plain(3)>>, <<"al">>))

\* the bundle is loaded as a fact (both rules False); then the status of
\* its rules under al is set to True, True and Conflict, and the compound is
\* read after each change
AggregateScript ==
    LET bundle == BundleFact.condition
        Set(j, value) ==
            Request("new_rules.call",
                    <<ReactiveRuleWithArgs(Plain(j), value, Some(<<"al">>))>>)
        Read == Request("get_atomic_condition", bundle)
    IN <<Request("new_with_rules", Some(<<BundleFact>>)), Read,
         Set(2, True), Read, Set(3, True), Read, Set(3, Conflict), Read>>

\* {=> +loaded.} as r.
LoadedBundle == Compound(<<CaseRule(Production(Primitive("loaded")))>>, <<"r">>)

\* the bundle is loaded as a fact and loaded is read
AliasFactScript ==
    <<Request("new_with_rules", Some(<<FactRule(LoadedBundle)>>)),
      Request("process_condition", Var("loaded"))>>

\* {=> +loaded.} as r. => +r.
AliasProducedScript ==
    <<Request("new_with_rules",
              Some(<<FactRule(LoadedBundle), CaseRule(Production(Primitive("r")))>>)),
      Request("process_condition", Var("loaded"))>>

\* {#e1 => +a1. g. => +loaded. => #e1.} as r.
OrderedBundle ==
    Compound(<<Plain(1), FactRule(Primitive("g")),
               CaseRule(Production(Primitive("loaded"))), CaseRule(Trigger(EventNames[1]))>>,
             <<"r">>)

\* the bundle is loaded as a fact and then produced and consumed by later
\* requests
BundleProducedScript ==
    <<Request("new_with_rules", Some(<<FactRule(OrderedBundle)>>)),
      Request("new_rules.call", <<CaseWithArgs(CaseRule(Production(Primitive("r"))))>>),
      Request("process_condition", Var(VarNames[1])),
      Request("new_rules.call", <<CaseWithArgs(CaseRule(Consumption(Primitive("r"))))>>),
      Request("get_atomic_condition", OrderedBundle)>>

\* {=> +loaded.} as r1. {=> -loaded.} as r2. => +r1. => +r2.
LastWinsProgram ==
    <<FactRule(Compound(<<CaseRule(Production(Primitive("loaded")))>>, <<"r1">>)),
      FactRule(Compound(<<CaseRule(Consumption(Primitive("loaded")))>>, <<"r2">>)),
      CaseRule(Production(Primitive("r1"))),
      CaseRule(Production(Primitive("r2")))>>

LastWinsScript ==
    <<Request("new_with_rules", Some(LastWinsProgram)),
      Request("process_condition", Var("loaded"))>>

\* #e => #aj.
Forward(j) == ECA(Trigger("e"), None, Trigger(VarNames[j]))

\* => +{#e => #a1. #e => #a2.} as r.
ForwardProgram ==
    <<CaseRule(Production(Compound(<<Forward(1), Forward(2)>>, <<"r">>)))>>

\* -r.{#e => #a2. #e => #a3.}: a selection of r, one rule of which is not
\* installed under r
Selection == SubCompound("r", Compound(<<Forward(2), Forward(3)>>, <<>>))

\* the two rules of r are read, the selection is consumed, and they are
\* read again
SubConsumeScript ==
    LET Read(j) == Request("get_atomic_condition", Compound(<<Forward(j)>>, <<"r">>))
    IN <<Request("new_with_rules", Some(ForwardProgram)), Read(1), Read(2),
         Request("new_rules.call", <<CaseWithArgs(CaseRule(Consumption(Selection)))>>),
         Read(1), Read(2)>>

\* {#e => #a2.}, given without alias and namespace
Unnamed == Compound(<<Forward(2)>>, <<>>)

\* the unnamed compound is consumed while r's copy of the rule is True, and
\* produced after r was consumed; r's copy is read after each
UnnamedScript ==
    LET Do(action) == Request("new_rules.call", <<CaseWithArgs(CaseRule(action))>>)
        Read == Request("get_atomic_condition", Compound(<<Forward(2)>>, <<"r">>))
    IN <<Request("new_with_rules", Some(ForwardProgram)),
         Do(Consumption(Unnamed)), Read,
         Do(Consumption(Primitive("r"))), Do(Production(Unnamed)), Read>>

\* #e => +{#f => +loaded.} as r.
Installer ==
    ECA(Trigger("e"), None,
        Production(Compound(<<ECA(Trigger("f"), None, Production(Primitive("loaded")))>>,
                            <<"r">>)))

\* the installer is fired, r is produced and consumed as `actions` say, and
\* #f is triggered
FiredProgram(actions) ==
    <<Installer, CaseRule(Trigger("e"))>> \o
    [j \in DOMAIN actions |-> CaseRule(actions[j])] \o
    <<CaseRule(Trigger("f"))>>

FiredScript(actions) ==
    <<Request("new_with_rules", Some(FiredProgram(actions))),
      Request("process_condition", Var("loaded"))>>

\* => -r.
FiredConsumedScript == FiredScript(<<Consumption(Primitive("r"))>>)

\* => +r.
FiredProducedScript == FiredScript(<<Production(Primitive("r"))>>)

\* => -r. => +r.   and   => +r. => -r.
ToggledOnScript ==
    FiredScript(<<Consumption(Primitive("r")), Production(Primitive("r"))>>)
ToggledOffScript ==
    FiredScript(<<Production(Primitive("r")), Consumption(Primitive("r"))>>)

\* the selection `+r.{#e => #a2. #e => #a3.}` is produced and the rules
\* of r are read
SubProduceScript ==
    LET Read(j) == Request("get_atomic_condition", Compound(<<Forward(j)>>, <<"r">>))
    IN <<Request("new_with_rules", Some(ForwardProgram)),
         Request("new_rules.call", <<CaseWithArgs(CaseRule(Production(Selection)))>>),
         Read(1), Read(2)>>

\* p -> q.  at construction, then  -> s.  by a request
DeclaredScript ==
    <<Request("new_with_rules", Some(<<DeclarativeRule(Some(Var("p")), Primitive("q"))>>)),
      Request("new_rules.call", <<DeclarativeWithArgs(DeclarativeRule(None, Primitive("s")))>>),
      Request("get_atomic_condition", Primitive("q"))>>

\* p -> {#e2 => +a2.} as al.
DeclaredCompound ==
    DeclarativeRule(Some(Var("p")), Compound(<<Plain(2)>>, <<"al">>))

\* the rule at construction, then once more by a request
DeclaredCompoundScript ==
    <<Request("new_with_rules", Some(<<DeclaredCompound>>)),
      Request("new_rules.call", <<DeclarativeWithArgs(DeclaredCompound)>>),
      Request("get_atomic_condition", DeclaredCompound.condition)>>

\* => +{#e => -r.} as r.   the rule consumes the bundle it belongs to
OneShot == ECA(Trigger("e"), None, Consumption(Primitive("r")))

\* the one-shot bundle is loaded, #e is triggered and the rules are listed
OneShotScript ==
    <<Request("new_with_rules",
              Some(<<CaseRule(Production(Compound(<<OneShot>>, <<"r">>)))>>)),
      Fire(Trigger("e")),
      Request("get_rules.call", TRUE)>>

\* #e1 => +{#e1 => +a2.}.   the rule installs another rule of its own event
SelfInstaller ==
    ECA(Trigger(EventNames[1]), None, Production(Compound(<<SameEvent>>, <<>>)))

SelfInstallScript ==
    <<Request("new_with_rules", Some(<<SelfInstaller>>)),
      Fire(Trigger(EventNames[1])),
      Request("get_rules.call", TRUE)>>

\* #e1 => +{#e2 => +a2.}.  is added by a request, so that #e2 has no
\* handler until #e1 is triggered
NewHandlerScript ==
    <<Request("new_with_rules", None),
      Request("new_rules.call",
              <<Active(ECA(Trigger(EventNames[1]), None,
                           Production(Compound(<<Plain(2)>>, <<>>))))>>),
      Fire(Trigger(EventNames[1])),
      Request("get_rules.call", TRUE)>>

\* => +ns.v.  and  => -ns.v.  with no alias ns; v is read after each
SubPrimitiveScript ==
    <<Request("new_with_rules", None),
      Fire(Production(SubCompound("ns", Primitive("v")))),
      Request("get_atomic_condition", Primitive("v")),
      Fire(Consumption(SubCompound("ns", Primitive("v")))),
      Request("get_atomic_condition", Primitive("v"))>>

\* a.b.{#e2 => +a2.} as c   and the name   a.b.c
DeepBundle == SubCompound("a", SubCompound("b", Compound(<<Plain(2)>>, <<"c">>)))
DeepName == SubCompound("a", SubCompound("b", Primitive("c")))

\* => +a.b.{#e2 => +a2.} as c.  then  => +a.b.c.  and the bundle is read
DeepScript ==
    <<Request("new_with_rules", None),
      Fire(Production(DeepBundle)),
      Fire(Production(DeepName)),
      Request("get_atomic_condition", DeepBundle),
      Request("get_rules.call", TRUE)>>

\* #e1 => +a1.  #e2 => +{#e1 => +a1.}.   the nested rule is also loaded
TwiceProgram ==
    <<Plain(1), ECA(Trigger(EventNames[2]), None, Production(Compound(<<Plain(1)>>, <<>>)))>>

TwiceScript ==
    <<Request("new_with_rules", Some(TwiceProgram)), Request("get_rules.call", FALSE)>>

\* => #x1; +a2; +a3.  and  => #x1, +a2, +a3.   the first child fails
FailingFirst ==
    <<Trigger(MissingNames[1]), Production(Primitive(VarNames[2])),
      Production(Primitive(VarNames[3]))>>

FailingFirstSequenceScript ==
    <<Request("new_with_rules", None), Fire(Sequence(FailingFirst))>>

FailingFirstParallelScript ==
    <<Request("new_with_rules", None), Fire(Parallel(FailingFirst))>>

\* => +{#e1=>+a1.}; +{#e2=>+a2.}; +{#e3=>+a3.}.
SequenceLoadedProgram ==
    <<CaseRule(Sequence([j \in 1..3 |-> Production(Compound(<<Plain(j)>>, <<>>))]))>>

SequenceLoadedScript ==
    <<Request("new_with_rules", Some(SequenceLoadedProgram)),
      Request("get_rules.call", FALSE)>>

\* one request with  => +a1.  => #x1.  => +a3.  ; a1 and a3 are read after it
PartialScript ==
    <<Request("new_with_rules", None),
      Request("new_rules.call",
              <<CaseWithArgs(CaseRule(Production(Primitive(VarNames[1])))),
                CaseWithArgs(CaseRule(Trigger(MissingNames[1]))),
                CaseWithArgs(CaseRule(Production(Primitive(VarNames[3]))))>>),
      Request("get_atomic_condition", Primitive(VarNames[1])),
      Request("get_atomic_condition", Primitive(VarNames[3]))>>

\* => +{#e1 => +a1. #e1 => +a1.} as r.  then  => -r.  : the bundle lists
\* its rule twice
DuplicateScript ==
    <<Request("new_with_rules",
              Some(<<CaseRule(Production(Compound(<<Plain(1), Plain(1)>>, <<"r">>)))>>)),
      Fire(Consumption(Primitive("r"))),
      Request("get_rules.call", TRUE)>>

\* t.  => -f.   then  f and u,  t or u,  t and u,  f or u  are evaluated;
\* u is never assigned
ShortCircuitScript ==
    <<Request("new_with_rules",
              Some(<<FactRule(Primitive("t")), CaseRule(Consumption(Primitive("f")))>>)),
      Request("process_condition", Conjunction(<<Var("f"), Var("u")>>)),
      Request("process_condition", Disjunction(<<Var("t"), Var("u")>>)),
      Request("process_condition", Conjunction(<<Var("t"), Var("u")>>)),
      Request("process_condition", Disjunction(<<Var("f"), Var("u")>>))>>

Scripts ==
    <<ShortCircuitScript, DuplicateScript, PartialScript, FailingFirstSequenceScript, FailingFirstParallelScript, SequenceLoadedScript,
      TwiceScript, DeepScript, SubPrimitiveScript, OneShotScript, SelfInstallScript, NewHandlerScript, LoadedScript, StatusScript, ConsumedAliasScript, ExclusiveScript,
      SequenceScript, ParallelScript, FailingSequenceScript, FailingParallelScript,
      TriggerInSequenceScript, AlternativeScript, NotifyScript, NotifyMoreScript,
      MixedScript, OverlapScript, SameNameScript, FailingActionScript,
      UnreadableGuardScript, FactsScript, UnsetScript, AggregateScript,
      AliasFactScript, AliasProducedScript, BundleProducedScript, LastWinsScript,
      SubConsumeScript, UnnamedScript, FiredConsumedScript, FiredProducedScript,
      ToggledOnScript, ToggledOffScript, SubProduceScript, DeclaredScript,
      DeclaredCompoundScript>>

Root == <<1>>

(***************************************************************************)
(* The specification                                                       *)
(***************************************************************************)
\* Node::new_with_rules starts from empty maps and the two node routes;
\* the caller is about to run one of the scripts
Init ==
    /\ vars = EmptyMap
    /\ aliases = EmptyMap
    /\ event_handlers = EmptyMap
    /\ mailbox = (NodeRoute("new_rules") :> <<>>) @@ (NodeRoute("get_rules") :> <<>>)
    /\ failOrder = <<>>
    /\ \E j \in DOMAIN Scripts :
        frames = (Root :> NewFrame("client", Scripts[j], "root", "run", "start"))

Next ==
    \/ \E route \in DOMAIN mailbox : Dispatch(route)
    \/ \E f \in DOMAIN frames : ClientNewWithRules(f)
    \/ \E f \in DOMAIN frames : ClientNewRulesCall(f)
    \/ \E f \in DOMAIN frames : ClientNewRulesNotify(f)
    \/ \E f \in DOMAIN frames : ClientGetRulesCall(f)
    \/ \E f \in DOMAIN frames : ClientGot(f)
    \/ \E f \in DOMAIN frames : ClientProcessCondition(f)
    \/ \E f \in DOMAIN frames : ClientGetAtomicCondition(f)
    \/ \E f \in DOMAIN frames : ProcessCondition(f)
    \/ \E f \in DOMAIN frames : NewWithRulesStore(f)
    \/ \E f \in DOMAIN frames : NewWithRulesCases(f)
    \/ \E f \in DOMAIN frames : NewWithRulesDone(f)
    \/ \E f \in DOMAIN frames : NewRulesRoute(f)
    \/ \E f \in DOMAIN frames : GetRulesRouteVisit(f)
    \/ \E f \in DOMAIN frames : GetRulesRouteDone(f)
    \/ \E f \in DOMAIN frames : ProcessRuleReactive(f)
    \/ \E f \in DOMAIN frames : ProcessRuleInsert(f)
    \/ \E f \in DOMAIN frames : ProcessRuleInsertLocked(f)
    \/ \E f \in DOMAIN frames : ProcessRuleCase(f)
    \/ \E f \in DOMAIN frames : ProcessRuleFact(f)
    \/ \E f \in DOMAIN frames : ProcessRuleDeclarative(f)
    \/ \E f \in DOMAIN frames : NewRuleRoute(f)
    \/ \E f \in DOMAIN frames : NewRuleRouteLocked(f)
    \/ \E f \in DOMAIN frames : StorePrimitive(f)
    \/ \E f \in DOMAIN frames : StoreCompound(f)
    \/ \E f \in DOMAIN frames : StoreCompoundRules(f)
    \/ \E f \in DOMAIN frames : StoreSubCompound(f)
    \/ \E f \in DOMAIN frames : ProcessActionTrigger(f)
    \/ \E f \in DOMAIN frames : ProcessActionProduction(f)
    \/ \E f \in DOMAIN frames : ProcessActionConsumption(f)
    \/ \E f \in DOMAIN frames : ProcessActionCaseRules(f)
    \/ \E f \in DOMAIN frames : SequenceSpawn(f)
    \/ \E f \in DOMAIN frames : ParallelSpawn(f)
    \/ \E f \in DOMAIN frames : BarrierWait(f)
    \/ \E f \in DOMAIN frames : BarrierWaitParent(f)
    \/ \E f \in DOMAIN frames : BarrierRelease(f)
    \/ \E f \in DOMAIN frames : BarrierReleaseParent(f)
    \/ \E f \in DOMAIN frames : JoinAll(f)
    \/ \E f \in DOMAIN frames : ProcessActionAlternative(f)
    \/ \E f \in DOMAIN frames : ProcessActionRouteVisit(f)
    \/ \E f \in DOMAIN frames : ProcessActionRouteDone(f)
    \/ \E f \in DOMAIN frames : ProcessRuleInternal(f)
    \/ \E f \in DOMAIN frames : ProcessRuleInternalFired(f)

Spec == Init /\ [][Next]_state

(***************************************************************************)
(* Vocabulary of the properties                                            *)
(***************************************************************************)
Running(script) ==
    /\ Len(frames[Root].a) = Len(script)
    /\ \A k \in DOMAIN script : frames[Root].a[k].op = script[k].op
    /\ frames[Root].a = script

\* the answers the caller has got so far
Answers == frames[Root].x

\* the caller has run its whole script
Finished == At(Root, "client", "start") /\ frames[Root].i > Len(frames[Root].a)

IsUnder(g, f) == Len(g) > Len(f) /\ SubSeq(g, 1, Len(f)) = f

IsTrue(v) == v \in DOMAIN vars /\ vars[v] = True
IsFalse(v) == v \in DOMAIN vars /\ vars[v] = False

\* frame f takes a step
Stepped(f) == f \notin DOMAIN frames' \/ frames'[f] # frames[f]

\* frame f returns r in this step: to the frame that awaits it, or into
\* its JoinHandle
Returned(f, r) ==
    LET t == Top(frames, f)
    IN IF frames[t].mode = "spawn"
       THEN t \in DOMAIN frames' /\ frames'[t].st = "done" /\ frames'[t].ret = r
       ELSE /\ t \notin DOMAIN frames'
            /\ Front(t) \in DOMAIN frames'
            /\ frames'[Front(t)].st = "run"
            /\ frames'[Front(t)].ret = r

\* process_condition on the variable v succeeds
Readable(v) ==
    LET r == GetAtomicCondition(vars, aliases, event_handlers, Primitive(v), None)
    IN r.ok /\ ToBool(r.val).ok

(***************************************************************************)
(* C1                                                                      *)
(***************************************************************************)
\* the non-case rules of the list are in place: each reactive rule is in the
\* handler of its event
Applied(rules) ==
    \A j \in DOMAIN rules :
        IsReactive(rules[j]) => GetRuleStatus(event_handlers, rules[j], None).ok

\* C1: while Node::new_with_rules runs, an action of a case rule of the
\* initial list is only ever in progress after the request carrying the
\* non-case rules was answered, with every reactive rule of the list
\* installed; the request carrying the case rules is then answered Ok, and
\* for `=> #e. #e => +loaded.` the constructor has an active handler for #e
\* when it is through, the case rule listed first notwithstanding.
C1_NonCaseRulesFirst ==
    \A f \in DOMAIN frames :
        (frames[f].fn = "new_with_rules" /\ frames[f].a # None) =>
            /\ (\E g \in DOMAIN frames : IsUnder(g, f) /\ frames[g].fn = "process_action")
                    => (frames[f].pc = "cases" /\ Applied(frames[f].a[1]))
            /\ At(f, "new_with_rules", "cases") => frames[f].ret.ok

C1_Witness ==
    /\ Running(LoadedScript)
    /\ \E g \in DOMAIN frames :
        /\ frames[g].fn = "process_action_route"
        /\ frames[g].st = "run"
        /\ GetRuleStatus(event_handlers, LoadedProgram[2], None) = Ok(True)

(***************************************************************************)
(* C2                                                                      *)
(***************************************************************************)
\* the status the handler of the rule's event stores for the rule
StoredStatuses(rule) ==
    LET id == GetIdentifier(rule)
    IN IF id \notin DOMAIN event_handlers THEN {}
       ELSE {event_handlers[id][key] :
                key \in {q \in DOMAIN event_handlers[id] : q.rule = rule}}

\* C2: whenever a handler's process_action has a rule evaluated (a
\* process_rule_internal is in progress for it), the status stored for that
\* rule is True: rules stored as False or as Conflict are passed over.
C2_OnlyTrueRulesFire ==
    \A f \in DOMAIN frames :
        frames[f].fn = "process_rule_internal" => StoredStatuses(frames[f].a) = {True}

(***************************************************************************)
(* C3                                                                      *)
(***************************************************************************)
InactiveTrigger(f) ==
    /\ At(f, "process_action", "start")
    /\ frames[f].a.k = "Trigger"
    /\ frames[f].a.id \in DOMAIN event_handlers
    /\ LET rules == event_handlers[frames[f].a.id]
       IN /\ \E key \in DOMAIN rules : rules[key] = False
          /\ \A key \in DOMAIN rules : rules[key] # True

\* C3: a trigger of an event whose handler has the aggregated state False
\* returns Ok(true) in one step that leaves the variables, the alias tree
\* and every rule status as they were; and when the program
\* `=> +{#e => +action.} as r. => -r. => #e.` has run, action is False.
C3_InactiveTriggerNoOp ==
    /\ [][\A f \in DOMAIN frames :
            (InactiveTrigger(f) /\ Stepped(f)) =>
                /\ Returned(f, Ok(TRUE))
                /\ UNCHANGED <<vars, aliases, event_handlers, mailbox>>]_state
    /\ []((Running(ConsumedAliasScript) /\ Finished) =>
            (IsFalse("action") /\ Answers = <<Ok(TRUE)>>))

C3_Witness ==
    /\ Running(ConsumedAliasScript)
    /\ Finished
    /\ GetRuleStatus(event_handlers, ConsumedAliasProgram[1].action.ac.rules[1],
                     Some(<<"r">>)) = Ok(False)
    /\ IsFalse("action")

(***************************************************************************)
(* C4 and C5                                                               *)
(***************************************************************************)
TrueAmong(names) == {v \in names : IsTrue(v)}

\* the Parallel action of frame f resolves in this step
Resolves(f) ==
    /\ At(f, "process_action", "join")
    /\ frames[f].a.k = "Parallel"
    /\ Stepped(f)

\* C4, as claimed: when the parallel trigger of the three guarded rules has
\* resolved, exactly one of a1, a2, a3 is True.
C4_ExactlyOne ==
    (Running(ExclusiveScript) /\ Len(Answers) >= 2) =>
        Cardinality(TrueAmong({"a1", "a2", "a3"})) = 1

\* C4, amended: at the step in which the parallel trigger of the three
\* guarded rules resolves, at least one of a1, a2, a3 is True (one, two or
\* all three of them, depending on the interleaving of the handlers).
C4_AtLeastOneWhenResolved ==
    [][\A f \in DOMAIN frames :
            (Running(ExclusiveScript) /\ Resolves(f)) =>
                Cardinality(TrueAmong({"a1", "a2", "a3"}))' \in 1..3]_state

C4_Witness ==
    /\ Running(ExclusiveScript)
    /\ Len(Answers) >= 2
    /\ Cardinality(TrueAmong({"a1", "a2", "a3"})) = 3

\* C5: once new_rules.call with the parallel trigger has returned, at least
\* one of a1, a2, a3 is True and process_condition reads each of the three
\* as a boolean.
C5_AtLeastOneReadable ==
    (Running(ExclusiveScript) /\ Len(Answers) >= 2) =>
        /\ TrueAmong({"a1", "a2", "a3"}) # {}
        /\ \A v \in {"a1", "a2", "a3"} : Readable(v)

C5_Witness ==
    /\ Running(ExclusiveScript)
    /\ Len(Answers) >= 2
    /\ Answers[2].ok
    /\ Cardinality(TrueAmong({"a1", "a2", "a3"})) = 1

(***************************************************************************)
(* C6 and C7                                                               *)
(***************************************************************************)
IsList(f, kind) == frames[f].fn = "process_action" /\ frames[f].a.k = kind

\* the j-th child task of the action list of frame f has begun to run its
\* action: it took a step of process_action
Started(f, j) ==
    /\ Append(f, j) \in DOMAIN frames
    /\ LET c == frames[Append(f, j)]
       IN ~(c.st = "run" /\ c.pc \in {"start", "barrier", "blocked"})

\* the j-th child task has called barrier.wait()
Arrived(f, j) ==
    /\ Append(f, j) \in DOMAIN frames
    /\ frames[Append(f, j)].pc # "barrier"

\* C6: in a Sequence, a child has begun to run only if every child before it
\* in the list has begun to run.
C6_SequenceStartOrder ==
    \A f \in DOMAIN frames :
        IsList(f, "Sequence") =>
            \A i, j \in DOMAIN frames[f].a.actions :
                (i < j /\ Started(f, j)) => Started(f, i)

\* C7: in a Parallel, a child has begun to run its action only if every
\* child of the list has arrived at the barrier.
C7_ParallelBarrier ==
    \A f \in DOMAIN frames :
        IsList(f, "Parallel") =>
            \A j \in DOMAIN frames[f].a.actions :
                Started(f, j) => \A i \in DOMAIN frames[f].a.actions : Arrived(f, i)

C7_Witness ==
    \E f \in DOMAIN frames :
        /\ IsList(f, "Parallel")
        /\ Len(frames[f].a.actions) = NumChildren
        /\ Started(f, NumChildren)
        /\ ~Started(f, 1)
        /\ frames[Append(f, 1)].pc = "blocked"

(***************************************************************************)
(* C8                                                                      *)
(***************************************************************************)
\* the action list of frame f returns in this step
ListReturns(f) ==
    /\ At(f, "process_action", "join")
    /\ frames[f].a.k \in {"Sequence", "Parallel"}
    /\ Stepped(f)

FailedChildren(f) == {j \in DOMAIN frames[f].a.actions : ~Handles(frames, f)[j].ok}

AllTrue(f) == \A j \in DOMAIN frames[f].a.actions : Handles(frames, f)[j].val

\* the child task of f that failed before every other child task of f
FirstToFail(f) ==
    LET mine == {k \in DOMAIN failOrder :
                    Len(failOrder[k]) = Len(f) + 1 /\ Front(failOrder[k]) = f}
    IN failOrder[CHOOSE k \in mine : \A m \in mine : k <= m]

LowestFailed(f) ==
    CHOOSE j \in FailedChildren(f) : \A m \in FailedChildren(f) : j <= m

\* C8, as claimed: a Sequence or Parallel returns the conjunction of its
\* children's results when none failed, and else the error of the child
\* that was the first to fail.
C8_FirstToFailWins ==
    [][\A f \in DOMAIN frames :
            ListReturns(f) =>
                IF FailedChildren(f) = {}
                THEN Returned(f, Ok(AllTrue(f)))
                ELSE Returned(f, frames[FirstToFail(f)].ret)]_state

\* C8, amended: a Sequence or Parallel returns only when every child task
\* has finished; it returns the conjunction of the children's results when
\* none failed, and else the error of the failed child that comes first in
\* the list, whichever child failed first in time.
C8_FirstInListWins ==
    [][\A f \in DOMAIN frames :
            ListReturns(f) =>
                /\ \A j \in DOMAIN frames[f].a.actions :
                        frames[Append(f, j)].st = "done"
                /\ IF FailedChildren(f) = {}
                   THEN Returned(f, Ok(AllTrue(f)))
                   ELSE Returned(f, Handles(frames, f)[LowestFailed(f)])]_state

C8_Witness ==
    /\ Running(FailingSequenceScript)
    /\ Len(failOrder) = NumChildren
    /\ Last(failOrder[1]) # 1
    /\ Len(Answers) = 2
    /\ Answers[2] = Err(<<"Invalid action", MissingNames[1]>>)

(***************************************************************************)
(* C9                                                                      *)
(***************************************************************************)
ActiveRules(rules) ==
    {j \in DOMAIN rules : GetRuleStatus(event_handlers, rules[j], None) = Ok(True)}

AlternativeAt(f) == At(f, "process_action", "start") /\ frames[f].a.k = "Alternative"

\* C9: an Alternative with at least one sub-action runs exactly one of them,
\* awaited in tail position so that its result is the Alternative's; after
\* `=> +{#e1=>+a1.} alt +{#e2=>+a2.} alt +{#e3=>+a3.}.` exactly one of the
\* three rules is active and get_rules(false) lists one rule.  An empty
\* Alternative returns the error "Cannot execute empty alternative action"
\* and changes no variable, alias or rule.
C9_AlternativeRunsOne ==
    /\ [][\A f \in DOMAIN frames :
            (AlternativeAt(f) /\ Stepped(f)) =>
                IF frames[f].a.actions = <<>>
                THEN /\ Returned(f, Err(<<"Cannot execute empty alternative action">>))
                     /\ UNCHANGED <<vars, aliases, event_handlers>>
                ELSE /\ {g \in DOMAIN frames' : IsUnder(g, f)} = {Append(f, 1)}
                     /\ frames'[Append(f, 1)].fn = "process_action"
                     /\ frames'[Append(f, 1)].mode = "await"
                     /\ Contains(frames[f].a.actions, frames'[Append(f, 1)].a)
                     /\ frames'[f].pc = "ret"
                     /\ UNCHANGED <<vars, aliases, event_handlers>>]_state
    /\ []((Running(AlternativeScript) /\ Len(Answers) >= 2) =>
            /\ Cardinality(ActiveRules([j \in 1..3 |-> Plain(j)])) = 1
            /\ Answers[2].ok
            /\ Cardinality(Answers[2].val) = 1)
    /\ []((Running(AlternativeScript) /\ Len(Answers) >= 3) =>
            Answers[3] = Err(<<"Cannot execute empty alternative action">>))

C9_Witness ==
    /\ Running(AlternativeScript)
    /\ Finished
    /\ ActiveRules([j \in 1..3 |-> Plain(j)]) = {2}
    /\ ~Answers[3].ok

(***************************************************************************)
(* C10                                                                     *)
(***************************************************************************)
\* C10: when get_rules.call, issued after new_rules.notify by the same
\* caller, has returned, its answer contains the reactive rules that were
\* notified.
C10_NotifiedRulesListed ==
    \A script \in {NotifyScript, NotifyMoreScript} :
        (Running(script) /\ Len(Answers) >= 3) =>
            \A j \in DOMAIN script[2].arg : script[2].arg[j] \in Answers[3].val

(***************************************************************************)
(* C11                                                                     *)
(***************************************************************************)
\* the queue of route r gets one more request at its end
Sent(r) ==
    /\ Len(mailbox'[r]) = Len(mailbox[r]) + 1
    /\ SubSeq(mailbox'[r], 1, Len(mailbox[r])) = mailbox[r]

\* the oldest request of route r is taken and its handler task is spawned
TakenOldest(r) ==
    /\ mailbox[r] # <<>>
    /\ mailbox'[r] = Tail(mailbox[r])
    /\ frames[Head(mailbox[r])].st = "queued"
    /\ frames'[Head(mailbox[r])].st = "run"

\* C11: the queue of a route only changes by a request being added at its
\* end or by its oldest request being taken, and a request only leaves the
\* state "queued" (its handler task is spawned) when it is the oldest of its
\* route; nothing makes a handler wait for the handler of an earlier
\* request (the witness has a later request answered while the handler of
\* an earlier one is still running).
C11_RouteTakesOldestFirst ==
    [][/\ \A r \in DOMAIN mailbox :
            mailbox'[r] # mailbox[r] => (Sent(r) \/ TakenOldest(r))
       /\ \A f \in DOMAIN frames :
            (frames[f].st = "queued" /\ f \in DOMAIN frames' /\ frames'[f].st # "queued")
                => \E r \in DOMAIN mailbox : mailbox[r] # <<>> /\ Head(mailbox[r]) = f]_state

C11_Witness ==
    /\ Running(OverlapScript)
    /\ Len(Answers) >= 3
    /\ Answers[3].ok
    /\ Append(Root, 2) \in DOMAIN frames
    /\ frames[Append(Root, 2)].fn = "new_rules"
    /\ frames[Append(Root, 2)].st = "wait"

(***************************************************************************)
(* C12, C13 and C14                                                        *)
(***************************************************************************)
\* C12: an Ok answer of new_rules.call is a vector with one boolean for each
\* rule of the request.
C12_OneBooleanPerRule ==
    \A k \in DOMAIN Answers :
        (frames[Root].a[k].op = "new_rules.call" /\ Answers[k].ok) =>
            /\ Len(Answers[k].val) = Len(frames[Root].a[k].arg)
            /\ \A j \in DOMAIN Answers[k].val : Answers[k].val[j] \in BOOLEAN

\* the handler route of frame f answers in this step
RouteAnswers(f) ==
    /\ frames[f].fn = "process_action_route"
    /\ frames[f].st = "run"
    /\ f \notin DOMAIN frames'

\* C13: a rule that was fired and whose action succeeded (the new_rules call
\* that ran it answered Ok) counts as a success, and the handler of #e in
\* `=> #e. #e => +loaded.`, whose single active rule fires a production that
\* succeeds, answers true.
C13_ConjunctionOfSuccesses ==
    [][/\ \A f \in DOMAIN frames :
            (At(f, "process_rule_internal", "fired") /\ Stepped(f) /\ frames[f].ret.ok)
                => Returned(f, Ok(TRUE))
       /\ \A f \in DOMAIN frames :
            (Running(LoadedScript) /\ RouteAnswers(f)) => Returned(f, Ok(TRUE))]_state

\* C14: a trigger whose handler fires a rule with a failing action (`#e1 =>
\* #x1.` without a handler for #x1) or with a condition that cannot be
\* evaluated (`#e2: u => +a2.` with u never stored) is answered with an
\* error.
C14_HandlerErrorsPropagate ==
    \A script \in {FailingActionScript, UnreadableGuardScript} :
        (Running(script) /\ Len(Answers) >= 3) => ~Answers[3].ok

(***************************************************************************)
(* C15 and C16                                                             *)
(***************************************************************************)
\* C15: no variable and no rule of any handler is stored with the value
\* Conflict.
C15_NoConflictStored ==
    /\ \A v \in DOMAIN vars : vars[v] # Conflict
    /\ \A id \in DOMAIN event_handlers :
        \A key \in DOMAIN event_handlers[id] : event_handlers[id][key] # Conflict

\* the requests of the caller's script that carry rules have all completed
RulesRequestsDone ==
    /\ Finished
    /\ \A f \in DOMAIN frames : frames[f].fn # "new_rules"

\* the reactive rules the caller's script has added, by any request
AddedRules ==
    LET script == frames[Root].a
    IN UNION {
        IF script[k].op \in {"new_rules.call", "new_rules.notify"}
        THEN {script[k].arg[j].rule : j \in {i \in DOMAIN script[k].arg :
                                                script[k].arg[i].k = "Reactive"}}
        ELSE IF script[k].op = "new_with_rules" /\ script[k].arg # None
        THEN {script[k].arg[1][j] : j \in {i \in DOMAIN script[k].arg[1] :
                                                IsReactive(script[k].arg[1][i])}}
        ELSE {} : k \in DOMAIN script}

\* C16: when every request that adds rules has completed, the handler of
\* each added rule's event holds the rule: where `#e1 => +a1.` and
\* `#e1 => +a2.` were added, by overlapping requests or one after the other,
\* the handler of #e1 has both entries.
C16_HandlerHoldsEveryRule ==
    \A script \in {OverlapScript, SameNameScript} :
        (Running(script) /\ RulesRequestsDone) =>
            \A rule \in AddedRules : GetRuleStatus(event_handlers, rule, None).ok

(***************************************************************************)
(* C17 and C18                                                             *)
(***************************************************************************)
\* the names of the primitive conditions a list of rules mentions anywhere
PrimitivesOf(rules) ==
    LET acs == VisitRules(rules)
    IN {acs[j].v : j \in {i \in DOMAIN acs : acs[i].k = "Primitive"}}

\* the rules the node has accepted: the initial rules and those of every
\* answered new_rules request of the caller's script
Accepted ==
    LET script == frames[Root].a
        done == {k \in DOMAIN script : k <= Len(Answers) /\ Answers[k].ok}
    IN UNION {
        IF script[k].op = "new_rules.call"
        THEN {script[k].arg[j].rule : j \in DOMAIN script[k].arg}
        ELSE IF script[k].op = "new_with_rules" /\ script[k].arg # None
        THEN {script[k].arg[1][j] : j \in DOMAIN script[k].arg[1]}
        ELSE {} : k \in done}

\* C17: every primitive condition named in a rule the node has accepted, at
\* construction or by a later new_rules request, is in the variable store.
C17_AcceptedPrimitivesStored ==
    \A rule \in Accepted : PrimitivesOf(<<rule>>) \subseteq DOMAIN vars

\* the constructor has just returned a node built from initial rules that
\* hold no case rule
ConstructedFrom(rules) ==
    /\ frames[Root].a[1] = Request("new_with_rules", Some(rules))
    /\ CaseRules(rules) = <<>>
    /\ At(Root, "client", "start")
    /\ frames[Root].i = 2
    /\ DOMAIN frames = {Root}

\* the primitives a fact rule of the list asserts
Asserted(rules) ==
    UNION {PrimitivesOf(<<rules[j]>>) : j \in {i \in DOMAIN rules : rules[i].k = "Fact"}}

\* C18: right after construction from rules R without a case rule, every
\* primitive mentioned anywhere in R is in the variable store, and it is
\* False unless a fact rule of R asserts it.
C18_ConstructionStoresFalse ==
    \A j \in DOMAIN Scripts :
        LET first == Scripts[j][1]
        IN (first.op = "new_with_rules" /\ first.arg # None
                /\ ConstructedFrom(first.arg[1])) =>
            \A v \in PrimitivesOf(first.arg[1]) :
                /\ v \in DOMAIN vars
                /\ v \notin Asserted(first.arg[1]) => vars[v] = False

C18_Witness ==
    /\ ConstructedFrom(FactsProgram)
    /\ IsTrue("f")
    /\ {"p", "q", "d1", "d2", "g"} \subseteq DOMAIN vars
    /\ vars["p"] = False /\ vars["d2"] = False

(***************************************************************************)
(* C19                                                                     *)
(***************************************************************************)
\* the primitive v was never stored
Unset(v) == v \notin DOMAIN vars

\* the names of primitives that are read
ReadNames == Range(VarNames) \cup {"loaded", "u", "f", "g", "p", "q"}

\* the process_condition frame f is about to read a primitive never stored
ReachesUnset(f) ==
    /\ At(f, "process_condition", "start")
    /\ LET e == Eval(frames[f].a, frames[f].x)
       IN e.st = "need" /\ e.ac.k = "Primitive" /\ Unset(e.ac.v)

\* the process_condition frame f returns an error in this step
ReturnedError(f) ==
    LET t == Top(frames, f)
    IN /\ frames[t].mode = "await"
       /\ t \notin DOMAIN frames'
       /\ ~frames'[Front(t)].ret.ok

\* C19: get_atomic_condition yields Conflict for a primitive that was never
\* stored, and the step in which process_condition reads such a primitive
\* returns an error and leaves the variables, the namespaces and the
\* handlers as they were.
C19_UnsetReadIsError ==
    /\ [](\A v \in ReadNames :
            Unset(v) => GetAtomicCondition(vars, aliases, event_handlers,
                                           Primitive(v), None) = Ok(Conflict))
    /\ [][\A f \in DOMAIN frames :
            (ReachesUnset(f) /\ Stepped(f)) =>
                /\ ReturnedError(f)
                /\ UNCHANGED <<vars, aliases, event_handlers>>]_state

\* the caller was answered Conflict for the unset `loaded`, an error for
\* `a1 or loaded`, where a1 is False and the read goes on to loaded, and
\* false for `a1 and loaded`, which stops at a1
C19_Witness ==
    /\ Running(UnsetScript) /\ Finished
    /\ Answers[2] = Ok(FALSE)
    /\ Answers[3] = Ok(Conflict)
    /\ ~Answers[4].ok
    /\ Answers[5] = Ok(FALSE)
    /\ Unset("loaded") /\ IsFalse(VarNames[1])

(***************************************************************************)
(* C20                                                                     *)
(***************************************************************************)
\* the requests of the caller's script that read an atomic condition and
\* were answered
AnsweredReads ==
    {k \in DOMAIN Answers : frames[Root].a[k].op = "get_atomic_condition"}

RECURSIVE Innermost(_)
\* the condition a chain of sub-compounds ends in
Innermost(condition) ==
    IF condition.k = "SubCompound" THEN Innermost(condition.condition) ELSE condition

RECURSIVE Namespace(_)
\* the namespace a condition is looked up in: the sub-compounds' namespaces,
\* innermost first, then the compound's alias
Namespace(condition) ==
    CASE condition.k = "SubCompound" ->
            Namespace(condition.condition) \o <<condition.namespace>>
      [] condition.k = "Compound" -> condition.alias
      [] OTHER -> <<>>

\* the errors the read of a compound can end in
CompoundErrors ==
    {"Cannot get rules from the main namespace", "No matching namespace found",
     "No matching namespace for alias", "Handler for rule not found",
     "Rule not found in handler", "Overall status is unknown",
     "No valid status found"}

ReadStep ==
    /\ At(Root, "client", "start")
    /\ frames[Root].i <= Len(frames[Root].a)
    /\ frames[Root].a[frames[Root].i].op = "get_atomic_condition"
    /\ frames'[Root].i = frames[Root].i + 1

\* the condition that is read and the answer
ReadCondition == frames[Root].a[frames[Root].i].arg
ReadAnswer == frames'[Root].x[Len(frames'[Root].x)]

\* the reactive rules a compound declares that are installed under its alias
Intersection(compound) ==
    {rule \in Range(compound.rules) :
        IsReactive(rule) /\ Contains(aliases[compound.alias], rule)}

\* the compound resolves to a namespace and each rule of the intersection
\* has a status stored under it
Resolved(compound) ==
    /\ compound.k = "Compound"
    /\ compound.alias # <<>>
    /\ compound.alias \in DOMAIN aliases
    /\ \A rule \in Intersection(compound) :
        /\ GetIdentifier(rule) \in DOMAIN event_handlers
        /\ ReactiveRuleKey(rule, Some(compound.alias)) \in
                DOMAIN event_handlers[GetIdentifier(rule)]

\* the statuses stored for the rules of the intersection
BundleStatuses(compound) ==
    {event_handlers[GetIdentifier(rule)][ReactiveRuleKey(rule, Some(compound.alias))] :
        rule \in Intersection(compound)}

InsideStore(f) ==
    \E g \in DOMAIN frames : IsUnder(f, g) /\ frames[g].fn = "store_atomic_condition"

\* the scripts that load a bundle holding case rules as a fact
BundleLoads == {AliasFactScript, AliasProducedScript, BundleProducedScript}

\* C22: no action is ever processed inside store_atomic_condition, so the
\* case rules of a compound it stores are not fired: when the fact rule
\* `{=> +loaded.} as r.` is loaded the bundle is installed under r and
\* loaded is left False.
C22_StoreFiresNoCaseRule ==
    /\ \A f \in DOMAIN frames : frames[f].fn = "process_action" => ~InsideStore(f)
    /\ \A script \in BundleLoads :
        (Running(script) /\ ConstructedFrom(<<script[1].arg[1][1]>>)) =>
            /\ IsFalse("loaded")
            /\ aliases[<<"r">>] = script[1].arg[1][1].condition.rules
    /\ (Running(AliasFactScript) /\ Finished) => Answers[2] = Ok(FALSE)

C22_Witness ==
    /\ Running(AliasFactScript) /\ Finished
    /\ Answers[2] = Ok(FALSE)
    /\ IsFalse("loaded")
    /\ aliases[<<"r">>] = LoadedBundle.rules

(***************************************************************************)
(* C23                                                                     *)
(***************************************************************************)
\* the process_action frame f produces or consumes the alias `name`, whose
\* bundle is installed
OnBundle(f, name) ==
    /\ At(f, "process_action", "cases")
    /\ frames[f].a.ac = Primitive(name)
    /\ <<name>> \in DOMAIN aliases

\* the status a production, resp. consumption, writes
Written(action) == IF action.k = "Production" THEN True ELSE False

\* every reactive rule and every fact of the bundle `name` has the status
BundleHas(name, status) ==
    \A j \in DOMAIN aliases[<<name>>] :
        LET rule == aliases[<<name>>][j]
        IN /\ IsReactive(rule) => GetRuleStatus(event_handlers, rule, Some(<<name>>)) = Ok(status)
           /\ (rule.k = "Fact" /\ rule.condition.k = "Primitive") =>
                    rule.condition.v \in DOMAIN vars /\ vars[rule.condition.v] = status

\* the aliases that are produced or consumed
AliasNames == {"r", "r1", "r2"}

\* C23: a production or consumption of an alias bundle starts the bundle's
\* case rules one at a time and in list order, and the first of them only
\* when the statuses of the bundle's reactive and fact rules are written;
\* `{=> +loaded.} as r. => +r.` ends with loaded True.
C23_CaseRulesAfterStore ==
    /\ [][\A f \in DOMAIN frames : \A name \in AliasNames :
            (OnBundle(f, name) /\ Child(frames, f) \in DOMAIN frames') =>
                LET case_rules == SelectKind(aliases[<<name>>], {"Case"})
                    started == frames'[Child(frames, f)]
                IN /\ frames[f].i <= Len(case_rules)
                   /\ started.fn = "process_rule"
                   /\ started.a = CaseWithArgs(case_rules[frames[f].i])
                   /\ frames[f].i = 1 => BundleHas(name, Written(frames[f].a))]_state
    /\ []((Running(AliasProducedScript) /\ Finished) => Answers[2] = Ok(TRUE))

\* the production of r has started the second case rule of the bundle, with
\* the rule of the bundle active and the fact and loaded True
C23_Witness ==
    /\ Running(BundleProducedScript)
    /\ \E f \in DOMAIN frames :
        /\ frames[f].fn = "process_action" /\ frames[f].pc = "cases"
        /\ frames[f].a = Production(Primitive("r"))
        /\ frames[f].i = 3
    /\ BundleHas("r", True)
    /\ IsTrue("loaded") /\ IsTrue("g")

(***************************************************************************)
(* C24                                                                     *)
(***************************************************************************)
\* C24: a new_rules request starts its rules one at a time and in list
\* order: when it starts a rule nothing started for an earlier rule
\* is still in progress, and the earlier rules succeeded; with
\* `{=> +loaded.} as r1. {=> -loaded.} as r2. => +r1. => +r2.` loaded ends
\* False.
C24_RulesInListOrder ==
    /\ [][\A f \in DOMAIN frames :
            (At(f, "new_rules", "start") /\ Child(frames, f) \in DOMAIN frames') =>
                LET started == frames'[Child(frames, f)]
                IN /\ started.fn = "process_rule"
                   /\ frames[f].i <= Len(frames[f].a)
                   /\ started.a = frames[f].a[frames[f].i]
                   /\ \A g \in DOMAIN frames : ~IsUnder(g, f)
                   /\ frames[f].i > 1 => frames[f].ret.ok]_state
    /\ []((Running(LastWinsScript) /\ Finished) =>
            Answers[2] = Ok(FALSE) /\ IsFalse("loaded"))

\* `=> +r2.` is in progress after `=> +r1.` has made loaded True
C24_Witness ==
    /\ Running(LastWinsScript)
    /\ IsTrue("loaded")
    /\ \E f \in DOMAIN frames :
        /\ frames[f].fn = "new_rules" /\ frames[f].st = "wait"
        /\ frames[f].a = CaseRules(LastWinsProgram)
        /\ frames[f].i = 3

(***************************************************************************)
(* C25                                                                     *)
(***************************************************************************)
\* frame f consumes a selection `-name.{R'}`
ConsumesSelection(f) ==
    /\ frames[f].fn = "process_action"
    /\ frames[f].a.k = "Consumption"
    /\ frames[f].a.ac.k = "SubCompound"
    /\ frames[f].a.ac.condition.k = "Compound"

\* the rules of the selection that are installed under its alias
Installed(selection) ==
    {rule \in Range(selection.condition.rules) :
        Contains(aliases[<<selection.namespace>>], rule)}

\* the status stored for the key in the handler `id`, None when there is none
StatusOf(eh, id, key) ==
    IF id \in DOMAIN eh /\ key \in DOMAIN eh[id] THEN Some(eh[id][key]) ELSE None

\* every key of every handler, before or after the step
AllKeys(eh, id) == IF id \in DOMAIN eh THEN DOMAIN eh[id] ELSE {}

\* C25: while a selection `-r.{R'}` is consumed the rule list of r does not
\* change and the only statuses that change are those of the rules of R'
\* installed under r, which become False; when the consumption returns each
\* of these rules is False under r.
C25_SelectionConsumed ==
    [][\A f \in DOMAIN frames : ConsumesSelection(f) =>
        LET selection == frames[f].a.ac
            ns == <<selection.namespace>>
        IN /\ aliases' = aliases
           /\ \A id \in DOMAIN event_handlers \cup DOMAIN event_handlers' :
                \A key \in AllKeys(event_handlers, id) \cup AllKeys(event_handlers', id) :
                    StatusOf(event_handlers', id, key) # StatusOf(event_handlers, id, key) =>
                        /\ key.rule \in Installed(selection)
                        /\ key.alias = Some(ns)
                        /\ StatusOf(event_handlers', id, key) = Some(False)
           /\ f \notin DOMAIN frames' =>
                \A rule \in Installed(selection) :
                    IsReactive(rule) =>
                        GetRuleStatus(event_handlers', rule, Some(ns)) = Ok(False)]_state

\* after the consumption the first rule of r reads True and the second False
C25_Witness ==
    /\ Running(SubConsumeScript) /\ Finished
    /\ Answers[2] = Ok(True) /\ Answers[3] = Ok(True)
    /\ Answers[4].ok
    /\ Answers[5] = Ok(True) /\ Answers[6] = Ok(False)
    /\ aliases[<<"r">>] = <<Forward(1), Forward(2)>>

(***************************************************************************)
(* C26                                                                     *)
(***************************************************************************)
\* frame f produces or consumes a compound given without alias
OnUnnamed(f) ==
    /\ frames[f].fn = "process_action"
    /\ frames[f].a.k \in {"Production", "Consumption"}
    /\ frames[f].a.ac.k = "Compound"
    /\ frames[f].a.ac.alias = <<>>

\* C26: while a compound without alias and namespace is produced or
\* consumed, the status each of its rules has under an alias does not
\* change: `-{#e => #a2.}` leaves r's copy of the rule True, and
\* `+{#e => #a2.}` leaves it False once r was consumed.
C26_StatusPerAliasPath ==
    /\ [][\A f \in DOMAIN frames : OnUnnamed(f) =>
            \A rule \in Range(frames[f].a.ac.rules) : \A name \in AliasNames :
                IsReactive(rule) =>
                    StatusOf(event_handlers', GetIdentifier(rule),
                             ReactiveRuleKey(rule, Some(<<name>>))) =
                        StatusOf(event_handlers, GetIdentifier(rule),
                                 ReactiveRuleKey(rule, Some(<<name>>)))]_state
    /\ []((Running(UnnamedScript) /\ Finished) =>
            Answers[3] = Ok(True) /\ Answers[6] = Ok(False))

\* the rule is False without alias and True under r, and later the reverse
C26_Witness ==
    /\ Running(UnnamedScript) /\ Finished
    /\ Answers[3] = Ok(True) /\ Answers[6] = Ok(False)
    /\ GetRuleStatus(event_handlers, Forward(2), None) = Ok(True)
    /\ GetRuleStatus(event_handlers, Forward(2), Some(<<"r">>)) = Ok(False)

(***************************************************************************)
(* C27                                                                     *)
(***************************************************************************)
\* the production or consumption f of the alias `name` completes in this
\* step
Completes(f, name) ==
    /\ OnBundle(f, name)
    /\ frames[f].ret.ok
    /\ frames[f].i > Len(frames[f].x)
    /\ f \notin DOMAIN frames'

\* the statuses the reactive rules of the bundle `name` have after the step
StatusesAfter(name) ==
    {GetRuleStatus(event_handlers', rule, Some(<<name>>)) :
        rule \in {r \in Range(aliases'[<<name>>]) : IsReactive(r)}}

\* C27: when a production of the alias r completes every reactive rule of
\* r's bundle is True, and when a consumption completes every one is False;
\* after `#e => +{#f => +loaded.} as r. => #e. => -r. => #f.` loaded is
\* False, and with `=> +r.` as the last action on r it is True.
C27_LastActionOnAlias ==
    /\ [][\A f \in DOMAIN frames : \A name \in AliasNames :
            Completes(f, name) => StatusesAfter(name) \subseteq {Ok(Written(frames[f].a))}]_state
    /\ [](Finished =>
            /\ Running(FiredConsumedScript) => Answers[2] = Ok(FALSE)
            /\ Running(FiredProducedScript) => Answers[2] = Ok(TRUE)
            /\ Running(ToggledOnScript) => Answers[2] = Ok(TRUE)
            /\ Running(ToggledOffScript) => Answers[2] = Ok(FALSE))

\* r, installed by the fired rule, was consumed: its rule is False and the
\* trigger of #f has left loaded False
C27_Witness ==
    /\ Running(FiredConsumedScript) /\ Finished
    /\ Answers[2] = Ok(FALSE)
    /\ IsFalse("loaded")
    /\ GetRuleStatus(event_handlers, Installer.action.ac.rules[1], Some(<<"r">>)) = Ok(False)

(***************************************************************************)
(* C28                                                                     *)
(***************************************************************************)
\* C28: no step removes a rule: every rule in the rule list of a namespace
\* is in that list after the step, and every key of a handler's rule map
\* is in that map after the step.
C28_RulesNeverRemoved ==
    [][/\ \A path \in DOMAIN aliases :
            /\ path \in DOMAIN aliases'
            /\ Range(aliases[path]) \subseteq Range(aliases'[path])
       /\ \A id \in DOMAIN event_handlers :
            /\ id \in DOMAIN event_handlers'
            /\ DOMAIN event_handlers[id] \subseteq DOMAIN event_handlers'[id]]_state

(***************************************************************************)
(* C29                                                                     *)
(***************************************************************************)
\* the scripts whose rules are all declarative
Declared == {DeclaredScript, DeclaredCompoundScript}

\* the declarative rules the node was constructed from
DeclaredRules == frames[Root].a[1].arg[1]

\* the variable store holds the primitives of the rules, all False
OnlyFalsePrimitives(rules) ==
    /\ DOMAIN vars = PrimitivesOf(rules)
    /\ \A v \in DOMAIN vars : vars[v] = False

\* every request of the caller so far was answered with success
AllAnswered == \A k \in DOMAIN Answers : Answers[k].ok

NamedCompounds(rules) ==
    LET acs == VisitRules(rules)
    IN {acs[j] : j \in {i \in DOMAIN acs : acs[i].k = "Compound"}}

\* the alias tree and the handler registry hold the compounds the rules
\* name and nothing else: each under its alias, its reactive rules False
OnlyNamedCompounds(rules) ==
    /\ DOMAIN aliases = {c.alias : c \in NamedCompounds(rules)}
    /\ \A c \in NamedCompounds(rules) :
        /\ aliases[c.alias] = c.rules
        /\ \A rule \in Range(c.rules) :
            IsReactive(rule) => GetRuleStatus(event_handlers, rule, Some(c.alias)) = Ok(False)
    /\ \A id \in DOMAIN event_handlers : \A key \in DOMAIN event_handlers[id] :
        /\ event_handlers[id][key] = False
        /\ \E c \in NamedCompounds(rules) :
            key.alias = Some(c.alias) /\ Contains(c.rules, key.rule)

Whitespace == {" ", "\n", "\t"}
Digits == {"0", "1", "2", "3", "4", "5", "6", "7", "8", "9"}
Letters ==
    {"a", "b", "c", "d", "e", "f", "g", "h", "i", "j", "k", "l", "m", "n", "o",
     "p", "q", "r", "s", "t", "u", "v", "w", "x", "y", "z"}
IsAlphanumeric(c) == c \in Letters \cup Digits

\* token.rs
Tok(t) == [t |-> t, v |-> <<>>]
Descriptor(name) == [t |-> "Descriptor", v |-> name]
Number(num) == [t |-> "Number", v |-> num]
LexError == Tok("Error")

Drop(s, n) == SubSeq(s, n + 1, Len(s))
StartsWith(s, p) == Len(s) >= Len(p) /\ SubSeq(s, 1, Len(p)) = p

RECURSIVE RunLen(_, _)
\* the length of the longest prefix of s made of characters of set
RunLen(s, set) ==
    IF s # <<>> /\ Head(s) \in set THEN 1 + RunLen(Tail(s), set) ELSE 0

RECURSIVE EndOfLine(_)
\* what is left of s from its first line feed on
EndOfLine(s) ==
    IF s = <<>> \/ Head(s) = "\n" THEN s ELSE EndOfLine(Tail(s))

RECURSIVE SkipPadding(_)
\* lexer.rs: padded() and padded_by(comment.repeated()): white space and
\* `%` comments, each running to the end of its line
SkipPadding(s) ==
    IF s = <<>> THEN s
    ELSE IF Head(s) \in Whitespace THEN SkipPadding(Tail(s))
    ELSE IF Head(s) = "%" THEN SkipPadding(EndOfLine(Tail(s)))
    ELSE s

SingleSymbols == {"#", ":", ";", "+", "-", "(", ")", "{", "}", ",", "@"}

\* u8::MAX
MaxU8 == 255

RECURSIVE Decimal(_)
\* s.parse::<u8>(), before the range check
Decimal(digits) ==
    IF digits = <<>> THEN 0
    ELSE 10 * Decimal(Front(digits)) + (CHOOSE d \in 0..9 : ToString(d) = Last(digits))

\* lexer.rs: token == multi_symbol.or(dot_or_endrule).or(symbol).or(number)
\* .or(ident); the token at the head of s and the number of characters it takes
Token(s) ==
    LET c == Head(s)
        symbol ==
            CASE c = "#" -> Tok("Hash")
              [] c = ":" -> Tok("Colon")
              [] c = ";" -> Tok("Semicolon")
              [] c = "+" -> Tok("Plus")
              [] c = "-" -> Tok("Minus")
              [] c = "(" -> Tok("LeftParenthesis")
              [] c = ")" -> Tok("RightParenthesis")
              [] c = "{" -> Tok("LeftCBracket")
              [] c = "}" -> Tok("RightCBracket")
              [] c = "," -> Tok("Comma")
              [] c = "@" -> Tok("At")
        \* text::int(10): a zero, or the digits after a digit that is not zero
        digits == SubSeq(s, 1, IF c = "0" THEN 1 ELSE RunLen(s, Digits))
        \* text::ascii::ident(): a letter or `_`, then letters, digits and `_`
        identifier == SubSeq(s, 1, 1 + RunLen(Tail(s), Letters \cup Digits \cup {"_"}))
        ident ==
            CASE identifier = <<"s", "e", "q">> -> Tok("Seq")
              [] identifier = <<"p", "a", "r">> -> Tok("Par")
              [] identifier = <<"a", "l", "t">> -> Tok("Alt")
              [] identifier = <<"a", "n", "d">> -> Tok("And")
              [] identifier = <<"o", "r">> -> Tok("Or")
              [] identifier = <<"n", "o", "t">> -> Tok("Not")
              [] identifier = <<"a", "s">> -> Tok("As")
              [] OTHER -> Descriptor(identifier)
    IN  IF StartsWith(s, <<"=", ">">>) THEN [tok |-> Tok("FatArrow"), len |-> 2]
        ELSE IF StartsWith(s, <<"-", ">">>) THEN [tok |-> Tok("ThinArrow"), len |-> 2]
        ELSE IF StartsWith(s, <<"-", "o">>) THEN [tok |-> Tok("DashO"), len |-> 2]
        ELSE IF c = "."
            THEN IF Len(s) > 1 /\ (IsAlphanumeric(s[2]) \/ s[2] = "{")
                 THEN [tok |-> Tok("Dot"), len |-> 1]
                 ELSE [tok |-> Tok("EndRule"), len |-> 1]
        ELSE IF c \in SingleSymbols THEN [tok |-> symbol, len |-> 1]
        ELSE IF c \in Digits
            THEN IF Decimal(digits) <= MaxU8
                 THEN [tok |-> Number(Decimal(digits)), len |-> Len(digits)]
                 ELSE [tok |-> LexError, len |-> Len(digits)]
        ELSE IF c \in Letters \cup {"_"} THEN [tok |-> ident, len |-> Len(identifier)]
        ELSE [tok |-> LexError, len |-> 1]

RECURSIVE LexTokens(_)
\* lexer.rs: the tokens of s, which starts at a token; a character that
\* starts no token is an error of the lexer
LexTokens(s) ==
    IF s = <<>> THEN <<>>
    ELSE <<Token(s).tok>> \o LexTokens(SkipPadding(Drop(s, Token(s).len)))

\* lexer.rs: lexer().parse(src)
Lexer(src) ==
    IF src = <<>> THEN <<>>
    ELSE IF SkipPadding(src) = <<>> THEN <<LexError>>
    ELSE LexTokens(SkipPadding(src))

(***************************************************************************)
(* ast.rs: Display                                                         *)
(***************************************************************************)
\* DeclarativeRule::CC and DeclarativeRule::CT, as the parser builds them
CC(premise, condition) == [k |-> "CC", premise |-> premise, condition |-> condition]
CT(premise, condition) == [k |-> "CT", premise |-> premise, condition |-> condition]

RECURSIVE Join(_, _)
\* Vec<String>::join(sep)
Join(texts, sep) ==
    IF texts = <<>> THEN <<>>
    ELSE IF Len(texts) = 1 THEN texts[1]
    ELSE texts[1] \o sep \o Join(Tail(texts), sep)

RECURSIVE DisplayCondition(_)
RECURSIVE DisplayAtomicCondition(_)
RECURSIVE DisplayCompound(_)
RECURSIVE DisplayAction(_)
RECURSIVE DisplayPrimitiveEvent(_)
RECURSIVE DisplayRule(_)

\* impl Display for Condition
DisplayCondition(c) ==
    CASE c.k = "Atomic" -> DisplayAtomicCondition(c.ac)
      [] c.k = "Not" -> <<"n", "o", "t", " ">> \o DisplayCondition(c.c)
      [] c.k = "Conjunction" ->
            Join([j \in DOMAIN c.cs |-> DisplayCondition(c.cs[j])], <<" ", "a", "n", "d", " ">>)
      [] c.k = "Disjunction" ->
            Join([j \in DOMAIN c.cs |-> DisplayCondition(c.cs[j])], <<" ", "o", "r", " ">>)
      [] c.k = "Parentheses" -> <<"(">> \o DisplayCondition(c.c) \o <<")">>

\* impl Display for AtomicCondition and for PrimitiveCondition
DisplayAtomicCondition(ac) ==
    CASE ac.k = "Primitive" -> ac.v
      [] ac.k = "Compound" -> DisplayCompound(ac)
      [] ac.k = "SubCompound" ->
            ac.namespace \o <<".">> \o DisplayAtomicCondition(ac.condition)

\* impl Display for Compound
DisplayCompound(compound) ==
    LET rules_string ==
            Join([j \in DOMAIN compound.rules |-> DisplayRule(compound.rules[j])], <<" ">>)
    IN  IF compound.alias # None
        THEN <<"{", " ">> \o rules_string \o <<" ", "}", " ", "a", "s", " ">> \o compound.alias[1]
        ELSE <<"{", " ">> \o rules_string \o <<" ", "}">>

\* impl Display for PrimitiveEvent
DisplayPrimitiveEvent(event) ==
    CASE event.k = "Trigger" -> <<"#">> \o event.id
      [] event.k = "Production" -> <<"+">> \o DisplayAtomicCondition(event.ac)
      [] event.k = "Consumption" -> <<"-">> \o DisplayAtomicCondition(event.ac)

\* impl Display for Action and for ActionList
DisplayAction(action) ==
    LET list == [j \in DOMAIN action.actions |-> DisplayAction(action.actions[j])]
    IN  CASE action.k = "Sequence" -> Join(list, <<";", " ">>)
          [] action.k = "Parallel" -> Join(list, <<",", " ">>)
          [] action.k = "Alternative" -> Join(list, <<"a", "l", "t", " ">>)
          [] OTHER -> DisplayPrimitiveEvent(action)

\* impl Display for ReactiveRule
DisplayReactiveRule(rule) ==
    IF rule.k = "ECA"
    THEN IF rule.condition # None
         THEN DisplayPrimitiveEvent(rule.event) \o <<":", " ">>
                \o DisplayCondition(rule.condition[1]) \o <<" ", "=", ">", " ">>
                \o DisplayAction(rule.action) \o <<".">>
         ELSE DisplayPrimitiveEvent(rule.event) \o <<" ", "=", ">", " ">>
                \o DisplayAction(rule.action) \o <<".">>
    ELSE <<":">> \o DisplayCondition(rule.condition) \o <<" ", "=", ">", " ">>
            \o DisplayAction(rule.action) \o <<".">>

\* impl Display for DeclarativeRule
DisplayDeclarativeRule(rule) ==
    LET condition ==
            IF rule.k = "CC" THEN DisplayAtomicCondition(rule.condition)
            ELSE DisplayCondition(rule.condition)
    IN  IF rule.premise # None
        THEN DisplayCondition(rule.premise[1]) \o <<" ", "-", ">", " ">> \o condition \o <<".">>
        ELSE <<"-", ">", " ">> \o condition \o <<".">>

\* impl Display for Rule
DisplayRule(rule) ==
    CASE rule.k \in {"ECA", "CA"} -> DisplayReactiveRule(rule)
      [] rule.k \in {"CC", "CT"} -> DisplayDeclarativeRule(rule)
      [] rule.k = "Case" -> <<"=", ">", " ">> \o DisplayAction(rule.action) \o <<".">>
      [] rule.k = "Fact" -> DisplayAtomicCondition(rule.condition) \o <<".">>

(***************************************************************************)
(* parser.rs                                                               *)
(*                                                                         *)
(* A parser takes the tokens that are left and answers whether it          *)
(* matched, the value it built and the tokens left after it.  `a.or(b)`    *)
(* tries b where a failed, from the same place; `or_not`, `repeated` and   *)
(* `separated_by` give back what a failed attempt consumed.                *)
(***************************************************************************)
Parsed(val, rest) == [ok |-> TRUE, val |-> val, rest |-> rest]
NoParse == [ok |-> FALSE, val |-> <<>>, rest |-> <<>>]

\* just(token)
Just(tokens, t) == tokens # <<>> /\ Head(tokens).t = t
JustOneOf(tokens, ts) == tokens # <<>> /\ Head(tokens).t \in ts

\* a.or(b)
Or(a, b) == IF a.ok THEN a ELSE b

\* the map_with of a separated list: the single element, or the list
\* wrapped by its constructor
Collapse(items, k) ==
    IF ~items.ok THEN NoParse
    ELSE IF Len(items.val) = 1 THEN Parsed(items.val[1], items.rest)
    ELSE IF k \in {"Conjunction", "Disjunction"}
        THEN Parsed([k |-> k, cs |-> items.val], items.rest)
    ELSE Parsed([k |-> k, actions |-> items.val], items.rest)

\* one more item of a separated or repeated list: the items after `item`,
\* which is followed by `more` where the list goes on
Cons(item, more) == Parsed(<<item.val>> \o more.val, more.rest)

RECURSIVE Parser(_, _)
\* fn parser(): the parsers it defines, which use each other; p names the
\* one to run on the tokens, "rules" being rule_parser.repeated().collect()
Parser(p, tokens) ==
    LET \* rule_parser.repeated().collect()
        rules ==
            LET rule == Parser("rule", tokens)
            IN  IF rule.ok THEN Cons(rule, Parser("rules", rule.rest))
                ELSE Parsed(<<>>, tokens)
        \* compound_parser: `{ rule1. rule2. }` or `{ rule1. rule2. } as alias`
        compound_parser ==
            LET inside == Parser("rules", Tail(tokens))
                after == Tail(inside.rest)
                named == Just(after, "As") /\ Just(Tail(after), "Descriptor")
            IN  IF ~Just(tokens, "LeftCBracket") THEN NoParse
                ELSE IF ~Just(inside.rest, "RightCBracket") THEN NoParse
                ELSE IF named
                    THEN Parsed(Compound(inside.val, Some(after[2].v)), Drop(after, 2))
                ELSE Parsed(Compound(inside.val, None), after)
        \* ac_parser: sub_compound_condition.or(primitive_condition)
        \* .or(compound_condition)
        ac_parser ==
            LET inner == Parser("atomic_condition", Drop(tokens, 2))
            IN  IF Just(tokens, "Descriptor") /\ Just(Tail(tokens), "Dot") /\ inner.ok
                    THEN Parsed(SubCompound(tokens[1].v, inner.val), inner.rest)
                ELSE IF Just(tokens, "Descriptor")
                    THEN Parsed(Primitive(tokens[1].v), Tail(tokens))
                ELSE Parser("compound", tokens)
        \* c_parser: or over and over not over primary; `and` and `or` are
        \* item.separated_by(separator).at_least(1)
        c_parser ==
            LET \* atomic_condition.or(parentheses)
                primary(ts) ==
                    LET atomic == Parser("atomic_condition", ts)
                        inside == Parser("condition", Tail(ts))
                    IN  IF atomic.ok THEN Parsed(Atomic(atomic.val), atomic.rest)
                        ELSE IF Just(ts, "LeftParenthesis") /\ inside.ok
                                /\ Just(inside.rest, "RightParenthesis")
                            THEN Parsed(Parentheses(inside.val), Tail(inside.rest))
                        ELSE NoParse
                RECURSIVE not(_)
                \* just(Token::Not).repeated().then(primary)
                not(ts) ==
                    LET negated == not(Tail(ts))
                    IN  IF ~Just(ts, "Not") THEN primary(ts)
                        ELSE IF negated.ok THEN Parsed(Not(negated.val), negated.rest)
                        ELSE NoParse
                RECURSIVE and_items(_)
                \* separated_by(just(Token::And).or(just(Token::Comma)))
                and_items(ts) ==
                    LET item == not(ts)
                        more == and_items(Tail(item.rest))
                    IN  IF ~item.ok THEN NoParse
                        ELSE IF JustOneOf(item.rest, {"And", "Comma"}) /\ more.ok
                            THEN Cons(item, more)
                        ELSE Parsed(<<item.val>>, item.rest)
                and(ts) == Collapse(and_items(ts), "Conjunction")
                RECURSIVE or_items(_)
                \* separated_by(just(Token::Or).or(just(Token::Semicolon)))
                or_items(ts) ==
                    LET item == and(ts)
                        more == or_items(Tail(item.rest))
                    IN  IF ~item.ok THEN NoParse
                        ELSE IF JustOneOf(item.rest, {"Or", "Semicolon"}) /\ more.ok
                            THEN Cons(item, more)
                        ELSE Parsed(<<item.val>>, item.rest)
            IN  Collapse(or_items(tokens), "Disjunction")
        \* pe_parser: trigger.or(production).or(consumption)
        pe_parser ==
            LET ac == Parser("atomic_condition", Tail(tokens))
            IN  IF Just(tokens, "Hash") /\ Just(Tail(tokens), "Descriptor")
                    THEN Parsed(Trigger(tokens[2].v), Drop(tokens, 2))
                ELSE IF Just(tokens, "Plus") /\ ac.ok THEN Parsed(Production(ac.val), ac.rest)
                ELSE IF Just(tokens, "Minus") /\ ac.ok
                    THEN Parsed(Consumption(ac.val), ac.rest)
                ELSE NoParse
        \* a_parser: sequence over alternate over parallel over primitive
        \* events, each item.separated_by(separator).at_least(1).allow_trailing()
        a_parser ==
            LET RECURSIVE parallel_items(_)
                \* separated_by(just(Token::Comma).or(just(Token::Par)))
                parallel_items(ts) ==
                    LET item == Parser("primitive_event", ts)
                        more == parallel_items(Tail(item.rest))
                    IN  IF ~item.ok THEN NoParse
                        ELSE IF ~JustOneOf(item.rest, {"Comma", "Par"})
                            THEN Parsed(<<item.val>>, item.rest)
                        ELSE IF more.ok THEN Cons(item, more)
                        ELSE Parsed(<<item.val>>, Tail(item.rest))
                parallel(ts) == Collapse(parallel_items(ts), "Parallel")
                RECURSIVE alternate_items(_)
                \* separated_by(just(Token::Alt))
                alternate_items(ts) ==
                    LET item == parallel(ts)
                        more == alternate_items(Tail(item.rest))
                    IN  IF ~item.ok THEN NoParse
                        ELSE IF ~Just(item.rest, "Alt") THEN Parsed(<<item.val>>, item.rest)
                        ELSE IF more.ok THEN Cons(item, more)
                        ELSE Parsed(<<item.val>>, Tail(item.rest))
                alternate(ts) == Collapse(alternate_items(ts), "Alternative")
                RECURSIVE sequence_items(_)
                \* separated_by(just(Token::Semicolon).or(just(Token::Seq)))
                sequence_items(ts) ==
                    LET item == alternate(ts)
                        more == sequence_items(Tail(item.rest))
                    IN  IF ~item.ok THEN NoParse
                        ELSE IF ~JustOneOf(item.rest, {"Semicolon", "Seq"})
                            THEN Parsed(<<item.val>>, item.rest)
                        ELSE IF more.ok THEN Cons(item, more)
                        ELSE Parsed(<<item.val>>, Tail(item.rest))
            IN  Collapse(sequence_items(tokens), "Sequence")
        \* rule_parser: reactive_rule.or(declarative_rule).or(case_rule)
        \* .or(fact_rule)
        rule_parser ==
            LET \* .then_ignore(just(Token::FatArrow)).then(action_parser)
                \* .then_ignore(just(Token::EndRule))
                arrow_action(ts) ==
                    LET action == Parser("action", Tail(ts))
                    IN  IF Just(ts, "FatArrow") /\ action.ok /\ Just(action.rest, "EndRule")
                        THEN Parsed(action.val, Tail(action.rest))
                        ELSE NoParse
                \* `#event : condition => action .` or `#event => action .`
                eca_rule ==
                    LET event == Parser("primitive_event", tokens)
                        cond == Parser("condition", Tail(event.rest))
                        guarded == Just(event.rest, "Colon") /\ cond.ok
                        action == arrow_action(IF guarded THEN cond.rest ELSE event.rest)
                    IN  IF event.ok /\ action.ok
                        THEN Parsed(ECA(event.val, IF guarded THEN Some(cond.val) ELSE None,
                                        action.val), action.rest)
                        ELSE NoParse
                \* `: condition => action .`
                ca_rule ==
                    LET cond == Parser("condition", Tail(tokens))
                        action == arrow_action(cond.rest)
                    IN  IF Just(tokens, "Colon") /\ cond.ok /\ action.ok
                        THEN Parsed(CA(cond.val, action.val), action.rest)
                        ELSE NoParse
                \* condition_parser.or_not(), then the arrow
                premise == Parser("condition", tokens)
                arrow == IF premise.ok THEN premise.rest ELSE tokens
                \* `premise -> atomic_condition .`
                cc_rule ==
                    LET condition == Parser("atomic_condition", Tail(arrow))
                    IN  IF Just(arrow, "ThinArrow") /\ condition.ok
                            /\ Just(condition.rest, "EndRule")
                        THEN Parsed(CC(IF premise.ok THEN Some(premise.val) ELSE None,
                                       condition.val), Tail(condition.rest))
                        ELSE NoParse
                \* `premise -o condition .`
                ct_rule ==
                    LET condition == Parser("condition", Tail(arrow))
                    IN  IF Just(arrow, "DashO") /\ condition.ok
                            /\ Just(condition.rest, "EndRule")
                        THEN Parsed(CT(IF premise.ok THEN Some(premise.val) ELSE None,
                                       condition.val), Tail(condition.rest))
                        ELSE NoParse
                \* `=> action .`
                case_rule ==
                    LET action == arrow_action(tokens)
                    IN  IF action.ok THEN Parsed(CaseRule(action.val), action.rest)
                        ELSE NoParse
                \* `atomic_condition .`
                fact_rule ==
                    LET condition == Parser("atomic_condition", tokens)
                    IN  IF condition.ok /\ Just(condition.rest, "EndRule")
                        THEN Parsed(FactRule(condition.val), Tail(condition.rest))
                        ELSE NoParse
                reactive_rule == Or(eca_rule, ca_rule)
                declarative_rule == Or(cc_rule, ct_rule)
            IN  Or(Or(Or(reactive_rule, declarative_rule), case_rule), fact_rule)
    IN  CASE p = "rule" -> rule_parser
          [] p = "rules" -> rules
          [] p = "atomic_condition" -> ac_parser
          [] p = "compound" -> compound_parser
          [] p = "condition" -> c_parser
          [] p = "primitive_event" -> pe_parser
          [] p = "action" -> a_parser

\* program_parser: rule_parser.repeated().collect().then_ignore(end())
ProgramParser(tokens) ==
    LET rules == Parser("rules", tokens)
    IN  IF rules.rest = <<>> THEN Ok(rules.val) ELSE Err(<<"parse error">>)

\* lib.rs, lex_and_parse: a text the lexer or the parser rejects ends the
\* process, which is the error here
LexAndParse(src) ==
    LET tokens == Lexer(src)
    IN  IF \E j \in DOMAIN tokens : tokens[j].t = "Error" THEN Err(<<"lex error">>)
        ELSE ProgramParser(tokens)

(***************************************************************************)
(* The round trip of a text: parse it, print every rule, parse the print   *)
(***************************************************************************)
\* action texts of tests/parser/action.rs, and a consumption written with a
\* space before its condition
ActionTexts ==
    {\* +primitive
     <<"+", "p", "r", "i", "m", "i", "t", "i", "v", "e">>,
     \* +a; #b
     <<"+", "a", ";", " ", "#", "b">>,
     \* +a; #b;
     <<"+", "a", ";", " ", "#", "b", ";">>,
     \* +a seq #b
     <<"+", "a", " ", "s", "e", "q", " ", "#", "b">>,
     \* +a, #b
     <<"+", "a", ",", " ", "#", "b">>,
     \* +a par #b
     <<"+", "a", " ", "p", "a", "r", " ", "#", "b">>,
     \* +a alt #b
     <<"+", "a", " ", "a", "l", "t", " ", "#", "b">>,
     \* +a alt #b alt -c
     <<"+", "a", " ", "a", "l", "t", " ", "#", "b", " ", "a", "l", "t", " ", "-", "c">>,
     \* #a par #b alt #c par #d seq #e par #f alt #g par #h
     <<"#", "a", " ", "p", "a", "r", " ", "#", "b", " ", "a", "l", "t", " ", "#", "c",
       " ", "p", "a", "r", " ", "#", "d", " ", "s", "e", "q", " ", "#", "e", " ", "p",
       "a", "r", " ", "#", "f", " ", "a", "l", "t", " ", "#", "g", " ", "p", "a", "r",
       " ", "#", "h">>,
     \* - order
     <<"-", " ", "o", "r", "d", "e", "r">>}

\* condition texts of tests/parser/condition.rs
ConditionTexts ==
    {\* condition
     <<"c", "o", "n", "d", "i", "t", "i", "o", "n">>,
     \* not condition
     <<"n", "o", "t", " ", "c", "o", "n", "d", "i", "t", "i", "o", "n">>,
     \* not not condition
     <<"n", "o", "t", " ", "n", "o", "t", " ", "c", "o", "n", "d", "i", "t", "i", "o",
       "n">>,
     \* (not condition)
     <<"(", "n", "o", "t", " ", "c", "o", "n", "d", "i", "t", "i", "o", "n", ")">>,
     \* a and b
     <<"a", " ", "a", "n", "d", " ", "b">>,
     \* a ; b
     <<"a", " ", ";", " ", "b">>,
     \* a , b ; c , d; e, f
     <<"a", " ", ",", " ", "b", " ", ";", " ", "c", " ", ",", " ", "d", ";", " ", "e",
       ",", " ", "f">>,
     \* (a ; b) , (c ; d), (e; f)
     <<"(", "a", " ", ";", " ", "b", ")", " ", ",", " ", "(", "c", " ", ";", " ", "d",
       ")", ",", " ", "(", "e", ";", " ", "f", ")">>}

\* atomic condition texts of tests/parser/atomic_condition.rs and
\* tests/parser/compound.rs
AtomicTexts ==
    {\* foo
     <<"f", "o", "o">>,
     \* { test. } as alias
     <<"{", " ", "t", "e", "s", "t", ".", " ", "}", " ", "a", "s", " ", "a", "l", "i",
       "a", "s">>,
     \* r.{ test. }
     <<"r", ".", "{", " ", "t", "e", "s", "t", ".", " ", "}">>,
     \* r.s.{ test. } as a
     <<"r", ".", "s", ".", "{", " ", "t", "e", "s", "t", ".", " ", "}", " ", "a", "s",
       " ", "a">>,
     \* { #event => +a. }
     <<"{", " ", "#", "e", "v", "e", "n", "t", " ", "=", ">", " ", "+", "a", ".", " ",
       "}">>}

\* the rule forms of tests/parser/rule.rs, over the texts of their parts
EcaText(c, a) == <<"#", "e", ":", " ">> \o c \o <<" ", "=", ">", " ">> \o a \o <<".">>
EventText(a) == <<"#", "e", " ", "=", ">", " ">> \o a \o <<" ", ".">>
CaText(c, a) == <<":", " ">> \o c \o <<" ", "=", ">", " ">> \o a \o <<".">>
CcText(p, c) == p \o <<" ", "-", ">", " ">> \o c \o <<".">>
CtText(p, c) == p \o <<" ", "-", "o", " ">> \o c \o <<".">>
CaseText(a) == <<"=", ">", " ">> \o a \o <<".">>
FactText(c) == c \o <<".">>

\* the texts given to the parser: every rule form over the texts of its
\* parts, two programs of several rules, a text with a comment and texts
\* that are no program
Sources ==
    {EcaText(c, a) : c \in ConditionTexts, a \in ActionTexts}
        \cup {EventText(a) : a \in ActionTexts}
        \cup {CaText(c, a) : c \in ConditionTexts, a \in ActionTexts}
        \cup {CcText(p, c) : p \in ConditionTexts \cup {<<>>}, c \in AtomicTexts}
        \cup {CtText(p, c) : p \in ConditionTexts \cup {<<>>}, c \in ConditionTexts}
        \cup {CaseText(a) : a \in ActionTexts}
        \cup {FactText(c) : c \in AtomicTexts}
        \cup {CaText(<<"c">>, <<"+", "a">>) \o <<" ">> \o CtText(<<"p">>, <<"c">>) \o <<" ">> \o FactText(<<"c">>),
              CaseText(<<"#", "a", ";", " ", "#", "b">>) \o <<" ", "%", " ", "t", "h", "e", "n", "\n">> \o CcText(<<"p">>, <<"c">>),
              \* e: c => +a.
              <<"e", ":", " ", "c", " ", "=", ">", " ", "+", "a", ".">>,
              \* #e: c => a.
              <<"#", "e", ":", " ", "c", " ", "=", ">", " ", "a", ".">>,
              \* #e => +a ? 
              <<"#", "e", " ", "=", ">", " ", "+", "a", " ", "?", " ">>,
              \* @scale(300)
              <<"@", "s", "c", "a", "l", "e", "(", "3", "0", "0", ")">>,
              <<>>}

RoundTripInit ==
    /\ vars = EmptyMap
    /\ aliases = EmptyMap
    /\ event_handlers = EmptyMap
    /\ mailbox = EmptyMap
    /\ failOrder = <<>>
    /\ \E src \in Sources :
        frames = (Root :> NewFrame("round_trip", src, "root", "run", "parse"))

\* lex_and_parse(src): x holds the rules of the text
RoundTripParse(f) ==
    /\ At(f, "round_trip", "parse")
    /\ LET parsed == LexAndParse(frames[f].a)
       IN  frames' = [frames EXCEPT
                ![f].ret = parsed,
                ![f].x = IF parsed.ok THEN parsed.val ELSE <<>>,
                ![f].pc = IF parsed.ok /\ parsed.val # <<>> THEN "print" ELSE "done"]
    /\ UNCHANGED <<vars, aliases, event_handlers, mailbox, failOrder>>

\* rule.to_string() of the rule at i: out holds the rendering
RoundTripPrint(f) ==
    /\ At(f, "round_trip", "print")
    /\ frames' = [frames EXCEPT
            ![f].out = DisplayRule(frames[f].x[frames[f].i]),
            ![f].pc = "reparse"]
    /\ UNCHANGED <<vars, aliases, event_handlers, mailbox, failOrder>>

\* lex_and_parse of the rendering
RoundTripReparse(f) ==
    /\ At(f, "round_trip", "reparse")
    /\ frames' = [frames EXCEPT
            ![f].ret = LexAndParse(frames[f].out),
            ![f].pc = "parsed"]
    /\ UNCHANGED <<vars, aliases, event_handlers, mailbox, failOrder>>

\* on to the next rule of the text
RoundTripNextRule(f) ==
    /\ At(f, "round_trip", "parsed")
    /\ frames' = [frames EXCEPT
            ![f].i = @ + 1,
            ![f].pc = IF frames[f].i < Len(frames[f].x) THEN "print" ELSE "done"]
    /\ UNCHANGED <<vars, aliases, event_handlers, mailbox, failOrder>>

RoundTripNext ==
    \/ \E f \in DOMAIN frames : RoundTripParse(f)
    \/ \E f \in DOMAIN frames : RoundTripPrint(f)
    \/ \E f \in DOMAIN frames : RoundTripReparse(f)
    \/ \E f \in DOMAIN frames : RoundTripNextRule(f)

RoundTripSpec == RoundTripInit /\ [][RoundTripNext]_state

\* the rule whose rendering was parsed, and the outcome of that parse
Printed(f) == frames[f].x[frames[f].i]
Reparsed(f) == frames[f].fn = "round_trip" /\ frames[f].pc = "parsed"
YieldsAgain(f) == frames[f].ret.ok /\ frames[f].ret.val = <<Printed(f)>>

\* C30: for every rule r the parser accepts, parsing the Display rendering
\* of r yields r again, whatever the form of r: alternative action lists, CT
\* declarative rules and CA rules included
C30_ParsePrintIsIdentity ==
    \A f \in DOMAIN frames : Reparsed(f) => YieldsAgain(f)

(***************************************************************************)
(* Guards and suspension                                                   *)
(***************************************************************************)
\* C31: no task keeps a guard into the handler registry or into a handler's
\* rule map while it is suspended on a route call or on a nested
\* process_action or process_condition (the rule list of an alias namespace
\* is locked only inside get_rules and create_rules, which call neither)
C31_NoGuardAcrossAwait ==
    \A f \in DOMAIN frames :
        frames[f].st = "wait" => RegistryGuard(f) = {} /\ RulesGuard(f) = {}

\* the scheduler runs every task that can take a step
FairSpec == Spec /\ WF_state(Next)

\* the trigger of the script has returned and the rule the fired action
\* wrote has the given status
TriggerReturned(id, key, status) ==
    /\ Finished
    /\ StatusOf(event_handlers, id, key) = Some(status)

\* C32: a trigger whose fired action writes into the handler that is firing
\* it returns, and the written rule then has the new status: the one-shot
\* bundle `{#e => -r.} as r` ends with its rule False, the rule that
\* installs another rule of its event ends with that rule True
C32_SelfWritingTriggerReturns ==
    /\ Running(OneShotScript) ~>
            TriggerReturned("e", ReactiveRuleKey(OneShot, Some(<<"r">>)), False)
    /\ Running(SelfInstallScript) ~>
            TriggerReturned(EventNames[1], ReactiveRuleKey(SameEvent, None), True)

(***************************************************************************)
(* Alias rule lists and handler entries                                    *)
(***************************************************************************)
\* the handler of the rule's identifier has an entry keyed (rule, p)
HasEntry(rule, p) ==
    /\ GetIdentifier(rule) \in DOMAIN event_handlers
    /\ ReactiveRuleKey(rule, Some(p)) \in DOMAIN event_handlers[GetIdentifier(rule)]

\* C33: in every reachable state a rule in the rule list of the alias
\* namespace at path p has an entry keyed (rule, p) in the handler of its
\* identifier if and only if it is a reactive rule
C33_ListedRulesHaveEntries ==
    \A p \in DOMAIN aliases : \A j \in DOMAIN aliases[p] :
        IF IsReactive(aliases[p][j]) THEN HasEntry(aliases[p][j], p)
        ELSE \A id \in DOMAIN event_handlers : \A key \in DOMAIN event_handlers[id] :
                key.rule # aliases[p][j]

(***************************************************************************)
(* Sub-compounds                                                           *)
(***************************************************************************)
\* store_atomic_condition running on the inner condition of a sub-compound
InnerStore(f) ==
    /\ Len(f) > 1
    /\ frames[f].fn = "store_atomic_condition"
    /\ frames[Front(f)].fn = "store_atomic_condition"
    /\ frames[Front(f)].a.condition.k = "SubCompound"

\* C34: store_atomic_condition on a sub-compound `ns.AC'` stores AC' with the
\* status its caller supplied; in particular `+ns.v` with no alias ns makes v
\* True and `-ns.v` makes it False
C34_SubCompoundKeepsStatus ==
    /\ \A f \in DOMAIN frames :
            InnerStore(f) => frames[f].a.value = frames[Front(f)].a.value
    /\ Running(SubPrimitiveScript) /\ Len(Answers) >= 3 => Answers[3] = Ok(True)
    /\ Running(SubPrimitiveScript) /\ Len(Answers) >= 5 => Answers[5] = Ok(False)

\* C35: for a chain of two sub-compounds get_alias_rules computes the
\* namespace path that store_atomic_condition stored under, so the bundle
\* installed by `+a.b.{R} as c` lies at a.b.c and is found, with its rules,
\* by an action naming `a.b.c`
C35_DeepBundleFound ==
    Running(DeepScript) /\ Len(Answers) >= 2 =>
        /\ \A p \in DOMAIN aliases : p \in Prefixes(<<"a", "b", "c">>)
        /\ GetAliasRules(aliases, DeepName, None).ok
        /\ GetAliasRules(aliases, DeepName, None).rules = <<Plain(2)>>

(***************************************************************************)
(* Nested rules after construction                                         *)
(***************************************************************************)
\* P holds of every reactive rule of every compound the visitor finds in
\* `rules`
NestedAll(rules, P(_)) ==
    LET atomic_conditions == VisitRules(rules)
    IN \A j \in DOMAIN atomic_conditions :
        atomic_conditions[j].k = "Compound" =>
            \A i \in DOMAIN atomic_conditions[j].rules :
                IsReactive(atomic_conditions[j].rules[i]) => P(atomic_conditions[j].rules[i])

\* the rule is in the handler of its identifier, every entry of it is False,
\* get_rules(false) of the handler omits it and a trigger passes it over
RegisteredFalse(rule) ==
    LET id == GetIdentifier(rule)
    IN /\ id \in DOMAIN event_handlers
       /\ \E key \in DOMAIN event_handlers[id] : key.rule = rule
       /\ \A key \in DOMAIN event_handlers[id] :
            key.rule = rule => /\ event_handlers[id][key] = False
                               /\ SkipsRule(event_handlers[id][key])
       /\ \A rwa \in HandlerGetRules(event_handlers[id], FALSE) : rwa.rule # rule

\* the node has just been constructed from the initial rules of a script
\* that holds no case rule, and P holds of these rules
JustConstructed(P(_)) ==
    \A s \in DOMAIN Scripts :
        LET first == Scripts[s][1]
        IN (first.op = "new_with_rules" /\ first.arg # None
                /\ ConstructedFrom(first.arg[1])) => P(first.arg[1])

Listed == {rwa.rule : rwa \in Answers[Len(Answers)].val}

\* C37: a Sequence or a Parallel returns only when every child task has
\* finished, also when a child failed; the failure cancels no sibling and
\* the siblings' effects stay: after `#x1; +a2; +a3` (or with commas) a2 and
\* a3 are True, and after `+{#e1=>+a1.}; +{#e2=>+a2.}; +{#e3=>+a3.}` was
\* loaded the three rules are active
C37_ListsWaitForEveryChild ==
    /\ [][\A f \in DOMAIN frames :
            ListReturns(f) =>
                \A j \in DOMAIN frames[f].a.actions :
                    /\ Append(f, j) \in DOMAIN frames
                    /\ frames[Append(f, j)].st = "done"]_state
    /\ [](\A script \in {FailingFirstSequenceScript, FailingFirstParallelScript} :
            Running(script) /\ Len(Answers) = 2 =>
                /\ Answers[2] = Err(<<"Invalid action", MissingNames[1]>>)
                /\ IsTrue(VarNames[2]) /\ IsTrue(VarNames[3]))
    /\ [](Running(SequenceLoadedScript) /\ Len(Answers) = 2 =>
                Listed = {Plain(1), Plain(2), Plain(3)})

C37_Witness ==
    /\ Running(FailingFirstParallelScript)
    /\ Finished
    /\ ~Answers[2].ok
    /\ IsTrue(VarNames[2]) /\ IsTrue(VarNames[3])

(***************************************************************************)
(* A failing rule ends its request                                         *)
(***************************************************************************)
\* the closure of new_rules has got an error from the rule it processed last
RuleFailed(f) ==
    /\ At(f, "new_rules", "start")
    /\ frames[f].i > 1
    /\ ~frames[f].ret.ok

\* C38: a new_rules request whose i-th rule fails returns that error, keeps
\* what rules 1..i-1 did and processes no rule after the i-th: of
\* `=> +a1. => #x1. => +a3.` the request answers the error of #x1, a1 is True
\* and a3 is never stored
C38_FailingRuleEndsRequest ==
    /\ [][\A f \in DOMAIN frames :
            RuleFailed(f) /\ Stepped(f) => Returned(f, frames[f].ret)]_state
    /\ [](Running(PartialScript) =>
            /\ Unset(VarNames[3])
            /\ Len(Answers) >= 2 =>
                    /\ Answers[2] = Err(<<"Invalid action", MissingNames[1]>>)
                    /\ IsTrue(VarNames[1]))

C38_Witness ==
    /\ Running(PartialScript)
    /\ Finished
    /\ Answers[3] = Ok(True)
    /\ Answers[4] = Ok(Conflict)

(***************************************************************************)
(* Rule lists of the alias namespaces                                      *)
(***************************************************************************)
\* C39: the rule list of an alias namespace never holds the same rule twice,
\* whatever create_rules calls were made in either mode, also when the
\* installed compound lists a rule twice
C39_NoRuleTwice ==
    \A p \in DOMAIN aliases : \A i, j \in DOMAIN aliases[p] :
        i # j => aliases[p][i] # aliases[p][j]

(***************************************************************************)
(* Conjunctions and disjunctions stop at the deciding operand              *)
(***************************************************************************)
\* a conjunction or disjunction of atomic conditions
FlatList(c) ==
    /\ c.k \in {"Conjunction", "Disjunction"}
    /\ \A j \in DOMAIN c.cs : c.cs[j].k = "Atomic"

\* C40: process_condition evaluates the operands of a conjunction or a
\* disjunction left to right and stops at the first deciding one: every
\* operand read before the last one read did not decide, `f and u` is false
\* and `t or u` is true although u was never assigned, while `t and u` and
\* `f or u` are errors
C40_StopsAtDecidingOperand ==
    /\ \A g \in DOMAIN frames :
            frames[g].fn = "process_condition" /\ FlatList(frames[g].a) =>
                /\ Len(frames[g].x) <= Len(frames[g].a.cs)
                /\ \A k \in 1..(Len(frames[g].x) - 1) :
                        /\ frames[g].x[k].ok
                        /\ ToBool(frames[g].x[k].val) = Ok(frames[g].a.k = "Conjunction")
    /\ Running(ShortCircuitScript) =>
            /\ Len(Answers) >= 2 => Answers[2] = Ok(FALSE)
            /\ Len(Answers) >= 3 => Answers[3] = Ok(TRUE)
            /\ Len(Answers) >= 4 => ~Answers[4].ok
            /\ Len(Answers) >= 5 => ~Answers[5].ok

C40_Witness ==
    /\ Running(ShortCircuitScript)
    /\ Finished
    /\ Unset("u")
    /\ IsTrue("t") /\ IsFalse("f")
    /\ Answers[2] = Ok(FALSE) /\ Answers[3] = Ok(TRUE)

====
